---- MODULE Spec2Model ----
(***************************************************************************)
(* Verification model of the dataRAG core: the schema parser               *)
(* (core/schema_parser.py), the relationship triples                       *)
(* (core/graph_rag_utils.py) and the keyword / graph searchers             *)
(* (core/hybrid_retriever.py).                                             *)
(*                                                                         *)
(* Python values are rendered as follows.                                  *)
(*   - str: a TLA+ string; its characters are given by Chars.              *)
(*   - None / absent key: the value NULL.                                  *)
(*   - an insertion-ordered dict: a sequence of entries with unique keys   *)
(*     (a Table or Column carries its key in its name field).              *)
(*   - a float score: a rational <<numerator, denominator>>.               *)
(***************************************************************************)
EXTENDS Integers, Sequences, FiniteSets, TLC

VARIABLES input, parsed, loaded, rag_triples, graph_out, keyword_out,
          hybrid_out, rerank_out, folder_out, context_out, join_out, neo4j

vars == <<input, parsed, loaded, rag_triples, graph_out, keyword_out,
         hybrid_out, rerank_out, folder_out, context_out, join_out, neo4j>>

(***************************************************************************)
(* Generic helpers.                                                        *)
(***************************************************************************)
NULL == "<null>"

Range(s) == {s[i] : i \in 1..Len(s)}

Min2(a, b) == IF a <= b THEN a ELSE b

\* Python truthiness of a str-or-None value.
Truthy(v) == v # NULL /\ v # ""

\* Python `a or b` on str-or-None values.
Or(a, b) == IF Truthy(a) THEN a ELSE b

\* The characters of every string the model uses.
Chars(s) ==
    CASE s = ""        -> <<>>
      [] s = "users"   -> <<"u", "s", "e", "r", "s">>
      [] s = "posts"   -> <<"p", "o", "s", "t", "s">>
      [] s = "tags"    -> <<"t", "a", "g", "s">>
      [] s = "logs"    -> <<"l", "o", "g", "s">>
      [] s = "id"      -> <<"i", "d">>
      [] s = "user_id" -> <<"u", "s", "e", "r", "_", "i", "d">>
      [] s = "post_id" -> <<"p", "o", "s", "t", "_", "i", "d">>
      [] s = "tag_id"  -> <<"t", "a", "g", "_", "i", "d">>
      [] s = "missing" -> <<"m", "i", "s", "s", "i", "n", "g">>
      [] s = "*users*" -> <<"*", "u", "s", "e", "r", "s", "*">>
      [] s = "(id)"    -> <<"(", "i", "d", ")">>
      [] s = "**"      -> <<"*", "*">>
      [] s = "user"    -> <<"u", "s", "e", "r">>
      [] s = "USER"    -> <<"U", "S", "E", "R">>
      [] s = "usr"     -> <<"u", "s", "r">>
      [] s = "post"    -> <<"p", "o", "s", "t">>
      [] s = "tag"     -> <<"t", "a", "g">>
      [] s = "s"       -> <<"s">>
      [] s = "zzz"     -> <<"z", "z", "z">>
      [] s = "integer" -> <<"i", "n", "t", "e", "g", "e", "r">>
      [] s = "text"    -> <<"t", "e", "x", "t">>

Strings ==
    {"", "users", "posts", "tags", "logs", "id", "user_id", "post_id", "tag_id",
     "missing", "*users*", "(id)", "**", "user", "USER", "usr", "post", "tag",
     "s", "zzz", "integer", "text"}

\* The string with the given characters.
FromChars(cs) == CHOOSE s \in Strings : Chars(s) = cs

(***************************************************************************)
(* String operations of the Python runtime that the code relies on.        *)
(***************************************************************************)
\* str.lower(), character by character.
LowerChar(c) ==
    CASE c = "U" -> "u"
      [] c = "S" -> "s"
      [] c = "E" -> "e"
      [] c = "R" -> "r"
      [] OTHER   -> c

Lower(cs) == [i \in 1..Len(cs) |-> LowerChar(cs[i])]

\* The regular-expression class \w.
IsWordChar(c) ==
    c \in {"a", "d", "e", "g", "i", "l", "m", "n", "o", "p", "r", "s", "t", "u",
           "x", "z", "U", "S", "E", "R", "_"}

IsSpace(c) == c = " "

IsNonWord(c) == ~IsWordChar(c)

RECURSIVE LStripSpace(_)
LStripSpace(cs) == IF cs # <<>> /\ IsSpace(Head(cs)) THEN LStripSpace(Tail(cs)) ELSE cs

RECURSIVE RStripSpace(_)
RStripSpace(cs) ==
    IF cs # <<>> /\ IsSpace(cs[Len(cs)])
    THEN RStripSpace(SubSeq(cs, 1, Len(cs) - 1))
    ELSE cs

\* str.strip()
Strip(s) == FromChars(RStripSpace(LStripSpace(Chars(s))))

\* The alternative ^\W+ of the pattern.
RECURSIVE LStripNonWord(_)
LStripNonWord(cs) ==
    IF cs # <<>> /\ IsNonWord(Head(cs)) THEN LStripNonWord(Tail(cs)) ELSE cs

\* The alternative \W+$ of the pattern.
RECURSIVE RStripNonWord(_)
RStripNonWord(cs) ==
    IF cs # <<>> /\ IsNonWord(cs[Len(cs)])
    THEN RStripNonWord(SubSeq(cs, 1, Len(cs) - 1))
    ELSE cs

\* re.sub(r'^\W+|\W+$', '', s.strip())
Sanitize(s) == FromChars(RStripNonWord(LStripNonWord(Chars(Strip(s)))))

\* Python `a in b` on strings.
Contains(a, b) ==
    \E i \in 0..(Len(b) - Len(a)) : SubSeq(b, i + 1, i + Len(a)) = a

\* Length of the common run of a[i..] and b[j..].
RECURSIVE CommonLen(_, _, _, _)
CommonLen(a, i, b, j) ==
    IF i <= Len(a) /\ j <= Len(b) /\ a[i] = b[j]
    THEN 1 + CommonLen(a, i + 1, b, j + 1)
    ELSE 0

\* difflib.SequenceMatcher.find_longest_match without junk: the longest
\* common block, the earliest in a and then the earliest in b among equals.
LongestMatch(a, b) ==
    LET Run == [i \in 1..Len(a), j \in 1..Len(b) |-> CommonLen(a, i, b, j)]
        Longest(k) == \A i \in 1..Len(a), j \in 1..Len(b) : Run[i, j] <= k
        k  == CHOOSE n \in 0..Min2(Len(a), Len(b)) :
                 /\ Longest(n)
                 /\ n = 0 \/ \E i \in 1..Len(a), j \in 1..Len(b) : Run[i, j] = n
        i0 == CHOOSE i \in 1..Len(a) :
                 /\ \E j \in 1..Len(b) : Run[i, j] = k
                 /\ \A h \in 1..(i - 1) : \A j \in 1..Len(b) : Run[h, j] # k
        j0 == CHOOSE j \in 1..Len(b) :
                 /\ Run[i0, j] = k
                 /\ \A h \in 1..(j - 1) : Run[i0, h] # k
    IN  IF k = 0 THEN <<1, 1, 0>> ELSE <<i0, j0, k>>

\* Total size of difflib.SequenceMatcher.get_matching_blocks.
RECURSIVE MatchCount(_, _)
MatchCount(a, b) ==
    LET m == LongestMatch(a, b)
        i == m[1]
        j == m[2]
        k == m[3]
    IN  IF k = 0 THEN 0
        ELSE k + MatchCount(SubSeq(a, 1, i - 1), SubSeq(b, 1, j - 1))
               + MatchCount(SubSeq(a, i + k, Len(a)), SubSeq(b, j + k, Len(b)))

(***************************************************************************)
(* Scores: rationals <<numerator, denominator>> in lowest terms.           *)
(***************************************************************************)
RECURSIVE GCD(_, _)
GCD(a, b) == IF b = 0 THEN a ELSE GCD(b, a % b)

Rat(n, d) == LET g == GCD(n, d) IN <<n \div g, d \div g>>

RatLeq(x, y) == x[1] * y[2] <= y[1] * x[2]

RatLess(x, y) == x[1] * y[2] < y[1] * x[2]

\* Python max(a, b): b only when it is strictly greater.
PyMax(a, b) == IF RatLess(a, b) THEN b ELSE a

\* bool coerced to a number.
BoolScore(b) == IF b THEN <<1, 1>> ELSE <<0, 1>>

\* SequenceMatcher(None, a, b).ratio()
fuzzy_match(a, b) ==
    IF Len(a) + Len(b) = 0 THEN <<1, 1>>
    ELSE Rat(2 * MatchCount(a, b), Len(a) + Len(b))

\* InsertByScore that puts an entry before the entries of equal score.
RECURSIVE InsertBeforeEqual(_, _)
InsertBeforeEqual(sorted, r) ==
    IF sorted = <<>> THEN <<r>>
    ELSE IF RatLeq(Head(sorted).score, r.score)
         THEN <<r>> \o sorted
         ELSE <<Head(sorted)>> \o InsertBeforeEqual(Tail(sorted), r)

\* sorted(seq, key=score, reverse=True): a stable sort, highest score first.
RECURSIVE InsertByScore(_, _)
InsertByScore(sorted, r) ==
    IF sorted = <<>> THEN <<r>>
    ELSE IF RatLess(Head(sorted).score, r.score)
         THEN <<r>> \o sorted
         ELSE <<Head(sorted)>> \o InsertByScore(Tail(sorted), r)

RECURSIVE SortByScoreDesc(_)
SortByScoreDesc(rs) ==
    IF rs = <<>> THEN <<>>
    ELSE InsertByScore(SortByScoreDesc(SubSeq(rs, 1, Len(rs) - 1)), rs[Len(rs)])

\* seq[:k] for k >= 0
Take(s, k) == SubSeq(s, 1, Min2(k, Len(s)))

(***************************************************************************)
(* The schema model (core/schema_parser.py, lines 9-32).                   *)
(***************************************************************************)
ForeignKey(column, ref_table, ref_column) ==
    [column |-> column, ref_table |-> ref_table, ref_column |-> ref_column]

\* Column.foreign_key is <<>> for None and <<fk>> otherwise.
Column(name, data_type, is_primary, is_unique) ==
    [name |-> name, data_type |-> data_type, is_primary |-> is_primary,
     is_unique |-> is_unique, foreign_key |-> <<>>]

Table(name, columns, primary_key, foreign_keys) ==
    [name |-> name, columns |-> columns, primary_key |-> primary_key,
     foreign_keys |-> foreign_keys]

\* Schema(): no tables.
EmptySchema == <<>>

\* The keys of a dict of Tables or Columns, in insertion order.
Keys(d) == [i \in 1..Len(d) |-> d[i].name]

KeySet(d) == {d[i].name : i \in 1..Len(d)}

\* d[key], for a key that is present.
Lookup(d, key) == d[CHOOSE i \in 1..Len(d) : d[i].name = key]

\* d[entry.name] = entry: an existing key keeps its position.
DictPut(d, entry) ==
    IF entry.name \in KeySet(d)
    THEN [i \in 1..Len(d) |-> IF d[i].name = entry.name THEN entry ELSE d[i]]
    ELSE Append(d, entry)

\* The foreign_keys dict is keyed by the local column: entries <<fk>> by fk.column.
FkKeySet(d) == {d[i].column : i \in 1..Len(d)}

FkPut(d, fk) ==
    IF fk.column \in FkKeySet(d)
    THEN [i \in 1..Len(d) |-> IF d[i].column = fk.column THEN fk ELSE d[i]]
    ELSE Append(d, fk)

\* columns_map[col].foreign_key = fk_obj
AttachFk(columns_map, col, fk) ==
    [i \in 1..Len(columns_map) |->
        IF columns_map[i].name = col
        THEN [columns_map[i] EXCEPT !.foreign_key = <<fk>>]
        ELSE columns_map[i]]

(***************************************************************************)
(* SchemaParser.parse (core/schema_parser.py, lines 36-207).               *)
(*                                                                         *)
(* A decoded document is a record: kind is "dict" for a mapping and the    *)
(* name of another Python type otherwise; a mapping has the entries        *)
(* tables, models and examples, each with its own kind ("absent" when the  *)
(* key is missing) and items.  A table or model definition has kind, name, *)
(* columns ([kind, items]), primary_key and foreign_keys; a column         *)
(* definition has kind, name, type, data_type, primary_key and unique; a   *)
(* foreign-key definition has column, table and ref_column (the two        *)
(* entries of its references mapping).                                     *)
(***************************************************************************)
\* Lines 62-65: the (name, definition) pairs of a raw columns value.
ColItems(raw_cols) ==
    IF raw_cols.kind = "dict" THEN raw_cols.items
    ELSE SelectSeq(raw_cols.items, LAMBDA col : col.kind = "dict" /\ Truthy(col.name))

\* Lines 67-80 (and, verbatim, 118-131): the first n column definitions parsed.
RECURSIVE ParseColumns(_, _, _)
ParseColumns(col_items, table_pk, n) ==
    IF n = 0 THEN <<>>
    ELSE LET columns_map == ParseColumns(col_items, table_pk, n - 1)
             col_def   == col_items[n]
             col_name  == col_def.name
             data_type == Or(col_def.type, col_def.data_type)
             is_pk     == col_def.primary_key \/ table_pk = col_name
         IN  IF ~Truthy(col_name) \/ col_def.kind # "dict" THEN columns_map
             ELSE IF ~Truthy(data_type) THEN columns_map
             ELSE DictPut(columns_map, Column(col_name, data_type, is_pk, col_def.unique))

\* Lines 83-100: the foreign keys of a table of the mapping shape; names are
\* sanitized.  The result is the pair [columns, foreign_keys] after n entries.
RECURSIVE ParseMappingFks(_, _, _)
ParseMappingFks(fk_defs, columns_map, n) ==
    IF n = 0 THEN [columns |-> columns_map, foreign_keys |-> <<>>]
    ELSE LET prev == ParseMappingFks(fk_defs, columns_map, n - 1)
             fk   == fk_defs[n]
         IN  IF Truthy(fk.column) /\ Truthy(fk.table) /\ Truthy(fk.ref_column)
             THEN LET col_name == Strip(fk.column)
                      fk_obj   == ForeignKey(col_name, Sanitize(fk.table),
                                             Sanitize(fk.ref_column))
                  IN  [columns |->
                           IF col_name \in KeySet(prev.columns)
                           THEN AttachFk(prev.columns, col_name, fk_obj)
                           ELSE prev.columns,
                       foreign_keys |-> FkPut(prev.foreign_keys, fk_obj)]
             ELSE prev

\* Lines 132-148: the foreign keys of a table of the list shape; names are
\* taken as written.
RECURSIVE ParseListFks(_, _, _)
ParseListFks(fk_defs, columns_map, n) ==
    IF n = 0 THEN [columns |-> columns_map, foreign_keys |-> <<>>]
    ELSE LET prev == ParseListFks(fk_defs, columns_map, n - 1)
             fk   == fk_defs[n]
         IN  IF Truthy(fk.column) /\ Truthy(fk.table) /\ Truthy(fk.ref_column)
             THEN LET fk_obj == ForeignKey(fk.column, fk.table, fk.ref_column)
                  IN  [columns |->
                           IF fk.column \in KeySet(prev.columns)
                           THEN AttachFk(prev.columns, fk.column, fk_obj)
                           ELSE prev.columns,
                       foreign_keys |-> FkPut(prev.foreign_keys, fk_obj)]
             ELSE prev

\* Lines 56-103: `tables` is a mapping of name -> definition.
RECURSIVE ParseTablesMapping(_, _)
ParseTablesMapping(raw_tables, n) ==
    IF n = 0 THEN <<>>
    ELSE LET tables    == ParseTablesMapping(raw_tables, n - 1)
             table_def == raw_tables[n]
             name      == table_def.name
         IN  IF ~Truthy(name) \/ table_def.kind # "dict" THEN tables
             ELSE LET col_items == ColItems(table_def.columns)
                      cols == ParseColumns(col_items, table_def.primary_key,
                                           Len(col_items))
                      fks  == ParseMappingFks(table_def.foreign_keys, cols,
                                              Len(table_def.foreign_keys))
                  IN  DictPut(tables, Table(name, fks.columns, table_def.primary_key,
                                            fks.foreign_keys))

\* Lines 106-151: `tables` is a list of definitions that carry their name.
RECURSIVE ParseTablesList(_, _)
ParseTablesList(raw_tables, n) ==
    IF n = 0 THEN <<>>
    ELSE LET tables    == ParseTablesList(raw_tables, n - 1)
             table_def == raw_tables[n]
         IN  IF table_def.kind # "dict" THEN tables
             ELSE IF ~Truthy(table_def.name) THEN tables
             ELSE LET col_items == ColItems(table_def.columns)
                      cols == ParseColumns(col_items, table_def.primary_key,
                                           Len(col_items))
                      fks  == ParseListFks(table_def.foreign_keys, cols,
                                           Len(table_def.foreign_keys))
                  IN  DictPut(tables, Table(table_def.name, fks.columns,
                                            table_def.primary_key, fks.foreign_keys))

\* Lines 159-177: the columns of a dbt model; only data_type gives the type.
RECURSIVE ParseModelColumns(_, _)
ParseModelColumns(raw_cols, n) ==
    IF n = 0 THEN <<>>
    ELSE LET columns_map == ParseModelColumns(raw_cols, n - 1)
             col_def     == raw_cols[n]
         IN  IF col_def.kind # "dict" THEN columns_map
             ELSE IF ~Truthy(col_def.name) \/ ~Truthy(col_def.data_type) THEN columns_map
             ELSE DictPut(columns_map,
                          Column(col_def.name, col_def.data_type, FALSE, FALSE))

\* Lines 154-185: `models` is a list of dbt model definitions.
RECURSIVE ParseModels(_, _)
ParseModels(models, n) ==
    IF n = 0 THEN <<>>
    ELSE LET tables    == ParseModels(models, n - 1)
             model_def == models[n]
         IN  IF model_def.kind # "dict" THEN tables
             ELSE IF ~Truthy(model_def.name) THEN tables
             ELSE LET columns_map ==
                          IF model_def.columns.kind = "list"
                          THEN ParseModelColumns(model_def.columns.items,
                                                 Len(model_def.columns.items))
                          ELSE <<>>
                  IN  IF columns_map # <<>>
                      THEN DictPut(tables, Table(model_def.name, columns_map, NULL, <<>>))
                      ELSE tables

\* Lines 193-196: the bare table names of one example.
RECURSIVE ParseExampleTables(_, _, _)
ParseExampleTables(tables, names, n) ==
    IF n = 0 THEN tables
    ELSE LET prev == ParseExampleTables(tables, names, n - 1)
             tbl  == names[n]
         IN  IF Truthy(tbl) /\ tbl \notin KeySet(prev)
             THEN Append(prev, Table(tbl, <<>>, NULL, <<>>))
             ELSE prev

\* Lines 190-196: stub tables from the examples list.
RECURSIVE ParseExamples(_, _)
ParseExamples(examples, n) ==
    IF n = 0 THEN <<>>
    ELSE LET tables == ParseExamples(examples, n - 1)
         IN  ParseExampleTables(tables, examples[n], Len(examples[n]))

\* Lines 51-196: the tables built from a decoded mapping.
BuildTables(data) ==
    LET raw_tables == data.tables
        tables ==
            IF raw_tables.kind = "dict"
            THEN ParseTablesMapping(raw_tables.items, Len(raw_tables.items))
            ELSE IF raw_tables.kind = "list"
            THEN ParseTablesList(raw_tables.items, Len(raw_tables.items))
            ELSE IF data.models.kind = "list"
            THEN ParseModels(data.models.items, Len(data.models.items))
            ELSE <<>>
    IN  IF tables = <<>> /\ data.examples.kind = "list"
        THEN ParseExamples(data.examples.items, Len(data.examples.items))
        ELSE tables

NoError == [type |-> "none", msg |-> <<>>]

ValueError(msg) == [type |-> "ValueError", msg |-> msg]

AttributeError == [type |-> "AttributeError", msg |-> <<>>]

\* ValidateFks with messages that name the referenced column in place of the
\* owning column.
RECURSIVE ValidateFksWrongColumn(_, _, _)
ValidateFksWrongColumn(tables, table, n) ==
    IF n = 0 THEN [type |-> "none", msg |-> <<>>]
    ELSE LET prev == ValidateFksWrongColumn(tables, table, n - 1)
             fk   == table.foreign_keys[n]
         IN  IF prev.type # "none" THEN prev
             ELSE IF fk.ref_table \notin KeySet(tables)
             THEN [type |-> "ValueError",
                   msg |-> <<"Referenced table", fk.ref_table,
                             "not found for foreign key on", table.name, ".",
                             fk.ref_column>>]
             ELSE IF fk.ref_column \notin KeySet(Lookup(tables, fk.ref_table).columns)
             THEN [type |-> "ValueError",
                   msg |-> <<"Referenced column", fk.ref_column, "not found in table",
                             fk.ref_table, "for foreign key on", table.name, ".",
                             fk.ref_column>>]
             ELSE [type |-> "none", msg |-> <<>>]

\* Lines 202-206: the first dangling reference among the first n foreign keys.
RECURSIVE ValidateFks(_, _, _)
ValidateFks(tables, table, n) ==
    IF n = 0 THEN NoError
    ELSE LET prev == ValidateFks(tables, table, n - 1)
             fk   == table.foreign_keys[n]
         IN  IF prev # NoError THEN prev
             ELSE IF fk.ref_table \notin KeySet(tables)
             THEN ValueError(<<"Referenced table", fk.ref_table,
                               "not found for foreign key on", table.name, ".",
                               fk.column>>)
             ELSE IF fk.ref_column \notin KeySet(Lookup(tables, fk.ref_table).columns)
             THEN ValueError(<<"Referenced column", fk.ref_column, "not found in table",
                               fk.ref_table, "for foreign key on", table.name, ".",
                               fk.column>>)
             ELSE NoError

\* Lines 199-206: the first integrity violation among the first n tables.
RECURSIVE Validate(_, _)
Validate(tables, n) ==
    IF n = 0 THEN NoError
    ELSE LET prev  == Validate(tables, n - 1)
             table == tables[n]
         IN  IF prev # NoError THEN prev
             ELSE IF Truthy(table.primary_key)
                     /\ table.primary_key \notin KeySet(table.columns)
             THEN ValueError(<<"Primary key", table.primary_key, "not found in table",
                               table.name>>)
             ELSE ValidateFks(tables, table, Len(table.foreign_keys))

Returned(schema) == [status |-> "returned", schema |-> schema, error |-> NoError]

Raised(error) == [status |-> "raised", schema |-> EmptySchema, error |-> error]

\* Lines 38-49: content is a mapping, or text tried as JSON and then as YAML.
\* content.decoder names the decoder that succeeds ("fail": neither does).
Decode(content) ==
    IF content.form = "dict" THEN [ok |-> TRUE, data |-> content.data]
    ELSE IF content.decoder = "json" THEN [ok |-> TRUE, data |-> content.data]
    ELSE IF content.decoder = "yaml" THEN [ok |-> TRUE, data |-> content.data]
    ELSE [ok |-> FALSE, data |-> [kind |-> "null"]]

\* SchemaParser.parse
SchemaParser_parse(content) ==
    LET decoded == Decode(content)
    IN  IF ~decoded.ok THEN Returned(EmptySchema)
        ELSE IF decoded.data.kind # "dict" THEN Raised(AttributeError)
        ELSE LET tables == BuildTables(decoded.data)
                 error  == Validate(tables, Len(tables))
             IN  IF error # NoError THEN Raised(error) ELSE Returned(tables)

\* SchemaParser.from_yaml / from_json (lines 210-229): any exception, from
\* reading the file or from parse, gives an empty Schema.
FromFile(readable, content) ==
    IF ~readable THEN EmptySchema
    ELSE LET r == SchemaParser_parse(content)
         IN  IF r.status = "raised" THEN EmptySchema ELSE r.schema

(***************************************************************************)
(* extract_graph_rag_triples (core/graph_rag_utils.py, lines 4-18).        *)
(***************************************************************************)
TableTriples(table) ==
    [i \in 1..Len(table.columns) |-> <<table.name, "HAS_COLUMN", table.columns[i].name>>]
    \o [i \in 1..Len(table.foreign_keys) |->
           <<table.name, "FOREIGN_KEY", table.foreign_keys[i].ref_table>>]

RECURSIVE TriplesUpTo(_, _)
TriplesUpTo(schema, n) ==
    IF n = 0 THEN <<>> ELSE TriplesUpTo(schema, n - 1) \o TableTriples(schema[n])

extract_graph_rag_triples(schema) == TriplesUpTo(schema, Len(schema))

(***************************************************************************)
(* keyword_search (core/hybrid_retriever.py, lines 13-24).                 *)
(* A qualified name is <<table>> or <<table, column>>.                     *)
(***************************************************************************)
\* Lines 17 and 21: max(substring containment, similarity ratio).
MatchScore(query_lower, name) ==
    PyMax(BoolScore(Contains(query_lower, Lower(Chars(name)))),
          fuzzy_match(query_lower, Lower(Chars(name))))

\* MatchScore of every pair of strings, computed once.
MatchScores == [q \in Strings, name \in Strings |-> MatchScore(Lower(Chars(q)), name)]

KeywordScore(query, name) == MatchScores[query, name]

\* Lines 20-23: the matching columns of a table, in declaration order.
RECURSIVE KeywordColumns(_, _, _, _)
KeywordColumns(query, table, fuzzy_threshold, n) ==
    IF n = 0 THEN <<>>
    ELSE LET results  == KeywordColumns(query, table, fuzzy_threshold, n - 1)
             col_name == table.columns[n].name
             score    == KeywordScore(query, col_name)
         IN  IF RatLeq(fuzzy_threshold, score)
             THEN Append(results, [type |-> "column", name |-> <<table.name, col_name>>,
                                   score |-> score,
                                   text |-> <<"Column:", col_name, "in", table.name>>])
             ELSE results

\* Lines 16-23: every table, then its columns.
RECURSIVE KeywordCandidates(_, _, _, _)
KeywordCandidates(query, schema, fuzzy_threshold, n) ==
    IF n = 0 THEN <<>>
    ELSE LET results == KeywordCandidates(query, schema, fuzzy_threshold, n - 1)
             table   == schema[n]
             score   == KeywordScore(query, table.name)
             hit     == IF RatLeq(fuzzy_threshold, score)
                        THEN <<[type |-> "table", name |-> <<table.name>>,
                                score |-> score, text |-> <<"Table:", table.name>>]>>
                        ELSE <<>>
         IN  results \o hit
             \o KeywordColumns(query, table, fuzzy_threshold, Len(table.columns))

\* Line 24 before the slice: the candidates, best first.
KeywordRanked(query, schema, fuzzy_threshold) ==
    SortByScoreDesc(KeywordCandidates(query, schema, fuzzy_threshold, Len(schema)))

keyword_search(query, schema, top_k, fuzzy_threshold) ==
    Take(KeywordRanked(query, schema, fuzzy_threshold), top_k)

(***************************************************************************)
(* graph_search (core/hybrid_retriever.py, lines 27-61).                   *)
(***************************************************************************)
\* Line 30: the tables whose name contains the query, in schema order.
NameSeeds(query_lower, schema) ==
    SelectSeq(Keys(schema), LAMBDA name : Contains(query_lower, Lower(Chars(name))))

\* TripleSeeds that matches the query against the subject only.
TripleSeedsBySubject(query_lower, schema) ==
    LET triples == extract_graph_rag_triples(schema)
    IN  {triples[i][1] : i \in {j \in 1..Len(triples) :
            Contains(query_lower, Lower(Chars(triples[j][1])))}}

\* Lines 33-36: the subjects of the triples with a matching endpoint.
TripleSeeds(query_lower, schema) ==
    LET triples == extract_graph_rag_triples(schema)
    IN  {triples[i][1] : i \in {j \in 1..Len(triples) :
            \/ Contains(query_lower, Lower(Chars(triples[j][1])))
            \/ Contains(query_lower, Lower(Chars(triples[j][3])))}}

\* All orders in which a set can be listed.
Orders(S) ==
    {o \in [1..Cardinality(S) -> S] : \A i, j \in 1..Cardinality(S) : o[i] = o[j] => i = j}

\* Lines 30-37: the possible start_tables lists.  list(set(...)) lists the
\* seeds found through the triples in an order the runtime chooses.
StartTables(query_lower, schema) ==
    IF NameSeeds(query_lower, schema) # <<>>
    THEN {NameSeeds(query_lower, schema)}
    ELSE Orders(TripleSeeds(query_lower, schema))

\* Lines 51-60: the neighbours examined for a table, in the order examined:
\* the referenced tables, then the tables that reference it.
RECURSIVE Referrers(_, _, _)
Referrers(schema, table_name, n) ==
    IF n = 0 THEN <<>>
    ELSE Referrers(schema, table_name, n - 1)
         \o [i \in 1..Len(SelectSeq(schema[n].foreign_keys,
                                    LAMBDA fk : fk.ref_table = table_name)) |->
                schema[n].name]

\* Neighbours without the tables that reference the table.
NeighboursOutboundOnly(schema, table_name) ==
    LET table == Lookup(schema, table_name)
    IN  [i \in 1..Len(table.foreign_keys) |-> table.foreign_keys[i].ref_table]

Neighbours(schema, table_name) ==
    LET table == Lookup(schema, table_name)
    IN  [i \in 1..Len(table.foreign_keys) |-> table.foreign_keys[i].ref_table]
        \o Referrers(schema, table_name, Len(schema))

\* Lines 52-54 and 58-60: enqueue the unvisited among the first n neighbours.
RECURSIVE Enqueue(_, _, _, _, _)
Enqueue(cands, n, hops, visited, queue) ==
    IF n = 0 THEN [visited |-> visited, queue |-> queue]
    ELSE LET prev == Enqueue(cands, n - 1, hops, visited, queue)
         IN  IF cands[n] \notin prev.visited
             THEN [visited |-> prev.visited \cup {cands[n]},
                   queue   |-> Append(prev.queue, <<cands[n], hops + 1>>)]
             ELSE prev

\* Lines 41-60: the traversal loop.
RECURSIVE Traverse(_, _, _, _, _)
Traverse(schema, max_hops, visited, queue, related) ==
    IF queue = <<>> THEN related
    ELSE LET table_name == Head(queue)[1]
             hops       == Head(queue)[2]
             rest       == Tail(queue)
         IN  IF hops > max_hops
             THEN Traverse(schema, max_hops, visited, rest, related)
             ELSE LET found ==
                          IF hops > 0
                          THEN Append(related,
                                      [type |-> "table", name |-> <<table_name>>,
                                       score |-> Rat(1, hops + 1),
                                       text |-> <<"Table:", table_name, "distance", hops>>,
                                       graph_distance |-> hops])
                          ELSE related
                  IN  IF table_name \notin KeySet(schema)
                      THEN Traverse(schema, max_hops, visited, rest, found)
                      ELSE LET cands == Neighbours(schema, table_name)
                               next  == Enqueue(cands, Len(cands), hops, visited, rest)
                           IN  Traverse(schema, max_hops, next.visited, next.queue, found)

\* Line 61 before the slice: the related tables, nearest first.
GraphRanked(start_tables, schema, max_hops) ==
    SortByScoreDesc(Traverse(schema, max_hops, Range(start_tables),
                             [i \in 1..Len(start_tables) |-> <<start_tables[i], 0>>],
                             <<>>))

\* graph_search, for one of the possible start_tables lists.
graph_search(start_tables, schema, top_k, max_hops) ==
    Take(GraphRanked(start_tables, schema, max_hops), top_k)

(***************************************************************************)
(* Input documents.                                                        *)
(***************************************************************************)
\* Most foreign keys declared by one table of a document.
MaxFks == 1

Absent == [kind |-> "absent", items |-> <<>>]

ColumnDef(name, type, data_type, primary_key) ==
    [kind |-> "dict", name |-> name, type |-> type, data_type |-> data_type,
     primary_key |-> primary_key, unique |-> FALSE]

FkDef(column, table, ref_column) ==
    [column |-> column, table |-> table, ref_column |-> ref_column]

TableDef(name, columns_kind, columns, primary_key, foreign_keys) ==
    [kind |-> "dict", name |-> name,
     columns |-> [kind |-> columns_kind, items |-> columns],
     primary_key |-> primary_key, foreign_keys |-> foreign_keys]

\* The three document shapes that carry table definitions.
Shapes == {"mapping", "list", "models"}

\* A document of the given shape for a list of table definitions.
Document(shape, table_defs, examples) ==
    [kind |-> "dict",
     tables |-> IF shape = "mapping" THEN [kind |-> "dict", items |-> table_defs]
                ELSE IF shape = "list" THEN [kind |-> "list", items |-> table_defs]
                ELSE Absent,
     models |-> IF shape = "models" THEN [kind |-> "list", items |-> table_defs]
                ELSE Absent,
     examples |-> examples]

\* How a column is typed: by `type`, by `data_type`, by both (with different
\* values), or not at all.
Typings == {"type", "data_type", "both", "neither"}

TypedColumn(name, typing, primary_key) ==
    ColumnDef(name,
              IF typing = "type" THEN "integer" ELSE IF typing = "both" THEN "text" ELSE NULL,
              IF typing \in {"data_type", "both"} THEN "integer" ELSE NULL,
              primary_key)

\* Columns are written as a mapping in the mapping shape, as a list elsewhere.
ColumnsKind(shape) == IF shape = "mapping" THEN "dict" ELSE "list"

\* The users table: absent, without columns, or with the column id, whose
\* primary key is declared on the column, at the top level, or not at all.
UsersDefs(shape) ==
    {<<>>}
    \cup {<<TableDef("users", ColumnsKind(shape), <<>>, NULL, <<>>)>>}
    \cup {<<TableDef("users", ColumnsKind(shape), <<TypedColumn("id", "type", pk)>>,
                     NULL, <<>>)>> : pk \in BOOLEAN}
    \cup {<<TableDef("users", ColumnsKind(shape), <<TypedColumn("id", "type", FALSE)>>,
                     "id", <<>>)>>}

\* The foreign keys a posts table may declare.
FkDefs ==
    {FkDef("user_id", "users", "id"),
     FkDef("user_id", "missing", "id"),
     FkDef("user_id", "users", "user_id"),
     FkDef("user_id", "*users*", "(id)"),
     FkDef("id", "users", "id")}

RECURSIVE SeqsUpTo(_, _)
SeqsUpTo(S, n) ==
    IF n = 0 THEN {<<>>}
    ELSE SeqsUpTo(S, n - 1)
         \cup {Append(q, x) : q \in {r \in SeqsUpTo(S, n - 1) : Len(r) = n - 1}, x \in S}

PostsColumns(typing) ==
    {<<>>,
     <<TypedColumn("id", "type", TRUE)>>,
     <<TypedColumn("user_id", typing, FALSE)>>,
     <<TypedColumn("id", "type", TRUE), TypedColumn("user_id", typing, FALSE)>>}

\* The posts table: absent, or with some of the columns id and user_id, a
\* top-level primary key and foreign keys.
PostsDefs(shape) ==
    {<<>>}
    \cup {<<TableDef("posts", ColumnsKind(shape), cols, pk, fks)>> :
            cols \in UNION {PostsColumns(typing) : typing \in Typings},
            pk \in {NULL, "", "id", "user_id"},
            fks \in SeqsUpTo(FkDefs, MaxFks)}

\* Values of the `examples` key: absent, or a list of examples with bare names.
ExampleLists ==
    {Absent,
     [kind |-> "list", items |-> <<>>],
     [kind |-> "list", items |-> <<<<"users">>>>],
     [kind |-> "list", items |-> <<<<"users", "posts">>, <<"users", "">>>>]}

\* Table lists that yield few or no tables: none, a definition that is not a
\* mapping, a table without columns, a table with one column.
SparseTableDefs(shape) ==
    {<<>>,
     <<[kind |-> "other", name |-> "users"]>>,
     <<TableDef("users", ColumnsKind(shape), <<>>, NULL, <<>>)>>,
     <<TableDef("users", ColumnsKind(shape), <<TypedColumn("id", "type", FALSE)>>,
                NULL, <<>>)>>}

\* Documents around the `examples` fallback: no known key, a `tables` value
\* that is neither mapping nor list, or a sparse primary shape, each with and
\* without examples.
FallbackDocuments ==
    {[kind |-> "dict", tables |-> t, models |-> Absent, examples |-> e] :
        t \in {Absent, [kind |-> "other", items |-> <<>>]}, e \in ExampleLists}
    \cup UNION {{Document(shape, defs, e) : defs \in SparseTableDefs(shape),
                                            e \in ExampleLists} : shape \in Shapes}

\* Decoded values that are not mappings.
NonMappings == {[kind |-> "list"], [kind |-> "scalar"], [kind |-> "null"]}

DictInput(data) == [form |-> "dict", decoder |-> "none", data |-> data]

TextInput(decoder, data) == [form |-> "text", decoder |-> decoder, data |-> data]

Undecodable == TextInput("fail", [kind |-> "null"])

\* What parse may be given: a mapping, or text that decodes as JSON, only as
\* YAML, or not at all.
IsInput(in) ==
    \/ \E shape \in Shapes :
          \E u \in UsersDefs(shape), p \in PostsDefs(shape) :
             \/ in = DictInput(Document(shape, u \o p, Absent))
             \/ in = TextInput("yaml", Document(shape, u \o p, Absent))
    \/ \E d \in FallbackDocuments \cup NonMappings :
          \/ in = TextInput("yaml", d)
          \/ in = TextInput("json", d)
          \/ d.kind = "dict" /\ in = DictInput(d)
    \/ in = Undecodable

(***************************************************************************)
(* The parser as a state machine: one call on one input.                   *)
(***************************************************************************)
NotCalled == [status |-> "none"]

\* core/neo4j_utils.py, line 20: the module state before any call.  driver is
\* the handle _driver, <<>> for None; created counts the drivers built;
\* uri_ok and server_up say whether GraphDatabase.driver accepts the
\* configured URI and whether the server answers; queries counts the queries
\* the server has run; last is the last call.
NoDriver ==
    [driver |-> <<>>, created |-> 0, uri_ok |-> TRUE, server_up |-> TRUE,
     queries |-> 0, last |-> [call |-> "none", outcome |-> "none"]]

Idle ==
    /\ parsed = NotCalled
    /\ loaded = NotCalled
    /\ graph_out = NotCalled
    /\ keyword_out = NotCalled
    /\ hybrid_out = NotCalled
    /\ rerank_out = NotCalled
    /\ folder_out = NotCalled
    /\ context_out = NotCalled
    /\ join_out = NotCalled
    /\ neo4j = NoDriver

Init ==
    /\ IsInput(input)
    /\ parsed = NotCalled
    /\ loaded = NotCalled
    /\ rag_triples = NotCalled
    /\ graph_out = NotCalled
    /\ keyword_out = NotCalled
    /\ hybrid_out = NotCalled
    /\ rerank_out = NotCalled
    /\ folder_out = NotCalled
    /\ context_out = NotCalled
    /\ join_out = NotCalled
    /\ neo4j = NoDriver

\* SchemaParser.parse(content)
Parse ==
    /\ Idle
    /\ parsed' = SchemaParser_parse(input)
    /\ UNCHANGED <<input, loaded, rag_triples, graph_out, keyword_out,
                   hybrid_out, rerank_out, folder_out,
                   context_out, join_out, neo4j>>

\* SchemaParser.from_yaml(path), the file holding the input text or being
\* unreadable.
FromYaml ==
    /\ Idle
    /\ input.form = "text"
    /\ \E readable \in BOOLEAN :
          loaded' = [status |-> "returned", readable |-> readable,
                     schema |-> FromFile(readable, input)]
    /\ UNCHANGED <<input, parsed, rag_triples, graph_out, keyword_out,
                   hybrid_out, rerank_out, folder_out,
                   context_out, join_out, neo4j>>

\* SchemaParser.from_json(path)
FromJson ==
    /\ Idle
    /\ input.form = "text"
    /\ \E readable \in BOOLEAN :
          loaded' = [status |-> "returned", readable |-> readable,
                     schema |-> FromFile(readable, input)]
    /\ UNCHANGED <<input, parsed, rag_triples, graph_out, keyword_out,
                   hybrid_out, rerank_out, folder_out,
                   context_out, join_out, neo4j>>

\* extract_graph_rag_triples(schema) on the parsed Schema
ExtractTriples ==
    /\ parsed.status = "returned"
    /\ rag_triples = NotCalled
    /\ graph_out = NotCalled
    /\ keyword_out = NotCalled
    /\ rag_triples' = [status |-> "returned",
                       triples |-> extract_graph_rag_triples(parsed.schema)]
    /\ UNCHANGED <<input, parsed, loaded, graph_out, keyword_out,
                   hybrid_out, rerank_out, folder_out,
                   context_out, join_out, neo4j>>

Next == Parse \/ FromYaml \/ FromJson \/ ExtractTriples

Spec == Init /\ [][Next]_vars


(***************************************************************************)
(* Properties of the parser.                                               *)
(***************************************************************************)
ColumnNames(table) == KeySet(table.columns)

\* The table definitions a document of one of the three shapes carries.
TableDefsOf(data) ==
    IF data.tables.kind \in {"dict", "list"} THEN data.tables.items ELSE data.models.items

ShapeOf(data) ==
    IF data.tables.kind = "dict" THEN "mapping"
    ELSE IF data.tables.kind = "list" THEN "list"
    ELSE IF data.models.kind = "list" THEN "models"
    ELSE "none"

\* The input decodes to a document of one of the three shapes, without examples.
IsSchemaDocument(in) ==
    /\ in.decoder # "fail"
    /\ in.data.kind = "dict"
    /\ ShapeOf(in.data) # "none"
    /\ in.data.examples.kind = "absent"
    /\ \A i \in 1..Len(TableDefsOf(in.data)) : TableDefsOf(in.data)[i].kind = "dict"

\* C1: parse either raises or returns a Schema in which every primary_key is
\* null or a column of its table, and every foreign key references an
\* existing table and an existing column of that table.
C1_ReturnedSchemaIsValid ==
    parsed.status = "returned" =>
        \A i \in 1..Len(parsed.schema) :
            LET table == parsed.schema[i]
            IN  /\ table.primary_key = NULL \/ table.primary_key \in ColumnNames(table)
                /\ \A j \in 1..Len(table.foreign_keys) :
                      LET fk == table.foreign_keys[j]
                      IN  /\ fk.ref_table \in KeySet(parsed.schema)
                          /\ fk.ref_column
                                \in ColumnNames(Lookup(parsed.schema, fk.ref_table))

\* C2: in every returned Schema, for each table, the (column name, ForeignKey)
\* pairs held by its columns equal the pairs held by its foreign_keys index.
C2_ForeignKeysAttachedInBothPlaces ==
    parsed.status = "returned" =>
        \A i \in 1..Len(parsed.schema) :
            LET table == parsed.schema[i]
            IN  {<<table.columns[j].name, table.columns[j].foreign_key[1]>> :
                     j \in {k \in 1..Len(table.columns) :
                              table.columns[k].foreign_key # <<>>}}
                = {<<table.foreign_keys[j].column, table.foreign_keys[j]>> :
                     j \in 1..Len(table.foreign_keys)}

\* The integrity violations of a dict of tables, each with the identifiers an
\* error about it has to name.
Violations(tables) ==
    {[kind |-> "primary key", ids |-> {t.primary_key, t.name}] :
        t \in {u \in Range(tables) :
                 Truthy(u.primary_key) /\ u.primary_key \notin ColumnNames(u)}}
    \cup UNION {
        {[kind |-> "table", ids |-> {fk.ref_table, t.name, fk.column}] :
            fk \in {f \in Range(t.foreign_keys) : f.ref_table \notin KeySet(tables)}}
        \cup {[kind |-> "column",
               ids |-> {fk.ref_column, fk.ref_table, t.name, fk.column}] :
            fk \in {f \in Range(t.foreign_keys) :
                      /\ f.ref_table \in KeySet(tables)
                      /\ f.ref_column \notin ColumnNames(Lookup(tables, f.ref_table))}}
        : t \in Range(tables)}

\* C3: when the tables built from a document violate integrity, parse raises a
\* validation error whose message names every identifier of one of the
\* violations: the key and its table, the missing table and the owning
\* table.column, or the missing column, its table and the owning table.column.
C3_ValidationErrorNamesOffenders ==
    (/\ parsed.status # "none"
     /\ input.decoder # "fail"
     /\ input.data.kind = "dict"
     /\ Violations(BuildTables(input.data)) # {})
    => /\ parsed.status = "raised"
       /\ parsed.error.type = "ValueError"
       /\ \E v \in Violations(BuildTables(input.data)) :
             v.ids \subseteq Range(parsed.error.msg)

\* Scenario B: the users/posts document whose foreign key on posts.user_id
\* references the table "missing".
ScenarioB ==
    Document("mapping",
             <<TableDef("users", "dict", <<TypedColumn("id", "type", TRUE)>>, NULL, <<>>),
               TableDef("posts", "dict",
                        <<TypedColumn("id", "type", TRUE),
                          TypedColumn("user_id", "type", FALSE)>>,
                        NULL, <<FkDef("user_id", "missing", "id")>>)>>,
             Absent)

\* Witness of C3: parse of Scenario B has raised an error that mentions
\* "missing" and "user_id".
C3_Witness ==
    /\ input.data = ScenarioB
    /\ parsed.status = "raised"
    /\ parsed.error.type = "ValueError"
    /\ {"missing", "user_id", "posts"} \subseteq Range(parsed.error.msg)

\* A text that describes no recognizable schema: it fails both decoders, or
\* decodes to a non-mapping, or to a mapping with none of the known keys.
Unrecognized(in) ==
    /\ in.form = "text"
    /\ \/ in.decoder = "fail"
       \/ in.data.kind # "dict"
       \/ /\ in.data.tables.kind \notin {"dict", "list"}
          /\ in.data.models.kind # "list"
          /\ in.data.examples.kind # "list"

\* C4: for every text that describes no recognizable schema parse returns an
\* empty Schema, and the only error parse raises is the validation error.
C4_UnrecognizedTextGivesEmptySchema ==
    /\ (parsed.status # "none" /\ Unrecognized(input)) => parsed = Returned(EmptySchema)
    /\ parsed.status = "raised" => parsed.error.type = "ValueError"

\* A valid document that describes zero tables: `tables` is an empty mapping
\* or list, or `models` is an empty list, and there are no examples.
DescribesZeroTables(in) ==
    /\ in.decoder # "fail"
    /\ in.data.kind = "dict"
    /\ ShapeOf(in.data) # "none"
    /\ TableDefsOf(in.data) = <<>>
    /\ in.data.examples.kind = "absent"

\* C5: the outcome of parsing a valid document that describes zero tables
\* differs from the outcome of parsing an unparseable text, for parse and for
\* from_yaml / from_json (where an unreadable file is a failure too).
C5_EmptyFallbackDistinguishable ==
    /\ (parsed.status # "none" /\ DescribesZeroTables(input))
          => parsed # SchemaParser_parse(Undecodable)
    /\ (loaded.status # "none" /\ loaded.readable /\ DescribesZeroTables(input))
          => /\ loaded.schema # FromFile(TRUE, Undecodable)
             /\ loaded.schema # FromFile(FALSE, input)

\* C6: in the mapping and list shapes, a kept column that carries
\* primary_key: true in a table without a top-level primary_key is_primary and
\* is the Table's primary_key; a kept column named by the top-level
\* primary_key is_primary and is the Table's primary_key.
C6_PrimaryKeyDeclaredEitherWay ==
    (/\ parsed.status = "returned"
     /\ IsSchemaDocument(input)
     /\ ShapeOf(input.data) \in {"mapping", "list"})
    => \A i \in 1..Len(TableDefsOf(input.data)) :
          LET table_def == TableDefsOf(input.data)[i]
              table     == Lookup(parsed.schema, table_def.name)
          IN  \A c \in ColumnNames(table) :
                 LET col_def == Lookup(table_def.columns.items, c)
                 IN  /\ (col_def.primary_key /\ table_def.primary_key = NULL)
                           => /\ Lookup(table.columns, c).is_primary
                              /\ table.primary_key = c
                     /\ table_def.primary_key = c
                           => /\ Lookup(table.columns, c).is_primary
                              /\ table.primary_key = c

\* The same table definitions written in another shape.
Reshape(data, shape) ==
    Document(shape,
             [i \in 1..Len(TableDefsOf(data)) |->
                 [TableDefsOf(data)[i] EXCEPT !.columns.kind = ColumnsKind(shape)]],
             Absent)

\* The table names of a Schema, each with the set of its column names.
TableColumnSets(schema) ==
    {<<schema[i].name, ColumnNames(schema[i])>> : i \in 1..Len(schema)}

\* C7: the three shapes of the same logical schema parse to Schemas with the
\* same table names and the same column names per table.
C7_ShapesParseAlike ==
    (parsed.status = "returned" /\ IsSchemaDocument(input))
    => \A shape \in Shapes :
          LET other == SchemaParser_parse(DictInput(Reshape(input.data, shape)))
          IN  other.status = "returned"
                 => TableColumnSets(other.schema) = TableColumnSets(parsed.schema)

\* The triples a models document declares: one per column and one per foreign key.
DeclaredTriples(data) ==
    UNION {
        {<<m.name, "HAS_COLUMN", c.name>> : c \in Range(m.columns.items)}
        \cup {<<m.name, "FOREIGN_KEY", fk.table>> : fk \in Range(m.foreign_keys)}
        : m \in Range(data.models.items)}

RECURSIVE SumOver(_, _)
SumOver(f, n) == IF n = 0 THEN 0 ELSE f[n] + SumOver(f, n - 1)

DeclaredTripleCount(data) ==
    SumOver([i \in 1..Len(data.models.items) |->
                Len(data.models.items[i].columns.items)
                + Len(data.models.items[i].foreign_keys)],
            Len(data.models.items))

\* C8: for a models document whose columns are typed with `type`, parse
\* followed by extract_graph_rag_triples gives exactly one HAS_COLUMN triple
\* per declared column and one FOREIGN_KEY triple per declared foreign key.
C8_ModelsTriplesAsDeclared ==
    (/\ rag_triples.status = "returned"
     /\ IsSchemaDocument(input)
     /\ ShapeOf(input.data) = "models"
     /\ \A m \in Range(input.data.models.items) :
           \A c \in Range(m.columns.items) : Truthy(c.type))
    => /\ Range(rag_triples.triples) = DeclaredTriples(input.data)
       /\ Len(rag_triples.triples) = DeclaredTripleCount(input.data)


(***************************************************************************)
(* The searchers as a state machine: one search over a parsed Schema.      *)
(***************************************************************************)
\* Largest top_k and max_hops a search is called with.
MaxTopK == 3

MaxHops == 2

SearchTables == <<"users", "posts", "tags">>

\* The column through which a table references the given table.
RefColumn(target) ==
    CASE target = "users" -> "user_id"
      [] target = "posts" -> "post_id"
      [] target = "tags"  -> "tag_id"

\* A table with the column id and a foreign key to the id of every table of refs.
SearchTableDef(name, refs) ==
    LET targets == SelectSeq(SearchTables, LAMBDA t : t \in refs)
    IN  TableDef(name, "dict",
                 <<TypedColumn("id", "type", TRUE)>>
                 \o [i \in 1..Len(targets) |->
                        TypedColumn(RefColumn(targets[i]), "type", FALSE)],
                 NULL,
                 [i \in 1..Len(targets) |-> FkDef(RefColumn(targets[i]), targets[i], "id")])

RefSets == {r \in SUBSET Range(SearchTables) : Cardinality(r) <= MaxFks}

\* Scenario A: users(id) and posts(id, user_id) with posts.user_id -> users.id.
ScenarioA ==
    Document("mapping",
             <<TableDef("users", "dict", <<TypedColumn("id", "type", TRUE)>>, NULL, <<>>),
               TableDef("posts", "dict",
                        <<TypedColumn("id", "type", TRUE),
                          TypedColumn("user_id", "type", FALSE)>>,
                        NULL, <<FkDef("user_id", "users", "id")>>)>>,
             Absent)

\* Documents whose tables reference one another in every way MaxFks allows.
SearchDocuments ==
    {Document("mapping",
              [i \in 1..Len(SearchTables) |-> SearchTableDef(SearchTables[i], refs[i])],
              Absent) : refs \in [1..Len(SearchTables) -> RefSets]}
    \cup {ScenarioA}

Queries == {"user", "USER", "usr", "user_id", "tag_id", "s", "zzz"}

\* fuzzy_threshold values; 7/10 is the default (hybrid_retriever.py, line 13).
Thresholds == {<<0, 1>>, <<1, 2>>, <<7, 10>>, <<3, 4>>}

InitSearch ==
    /\ input \in {DictInput(d) : d \in SearchDocuments}
    /\ parsed = SchemaParser_parse(input)
    /\ loaded = NotCalled
    /\ rag_triples = NotCalled
    /\ graph_out = NotCalled
    /\ keyword_out = NotCalled
    /\ hybrid_out = NotCalled
    /\ rerank_out = NotCalled
    /\ folder_out = NotCalled
    /\ context_out = NotCalled
    /\ join_out = NotCalled
    /\ neo4j = NoDriver

\* graph_search(query, schema, top_k, max_hops)
GraphSearch ==
    /\ parsed.status = "returned"
    /\ graph_out = NotCalled
    /\ keyword_out = NotCalled
    /\ \E query \in Queries, max_hops \in 0..MaxHops :
          \E start_tables \in StartTables(Lower(Chars(query)), parsed.schema) :
             LET ranked == GraphRanked(start_tables, parsed.schema, max_hops)
             IN  \E top_k \in 0..MaxTopK :
                    graph_out' = [status |-> "returned", query |-> query,
                                  top_k |-> top_k, max_hops |-> max_hops,
                                  start_tables |-> start_tables, ranked |-> ranked,
                                  results |-> Take(ranked, top_k)]
    /\ UNCHANGED <<input, parsed, loaded, rag_triples, keyword_out,
                   hybrid_out, rerank_out, folder_out,
                   context_out, join_out, neo4j>>

\* keyword_search(query, schema, top_k, fuzzy_threshold)
KeywordSearch ==
    /\ parsed.status = "returned"
    /\ graph_out = NotCalled
    /\ keyword_out = NotCalled
    /\ \E query \in Queries, fuzzy_threshold \in Thresholds :
          LET ranked == KeywordRanked(query, parsed.schema, fuzzy_threshold)
          IN  \E top_k \in 0..MaxTopK :
                 keyword_out' = [status |-> "returned", query |-> query,
                                 top_k |-> top_k, fuzzy_threshold |-> fuzzy_threshold,
                                 results |-> Take(ranked, top_k)]
    /\ UNCHANGED <<input, parsed, loaded, rag_triples, graph_out,
                   hybrid_out, rerank_out, folder_out,
                   context_out, join_out, neo4j>>

NextSearch == GraphSearch \/ KeywordSearch

SpecSearch == InitSearch /\ [][NextSearch]_vars


(***************************************************************************)
(* Properties of the searchers.                                            *)
(***************************************************************************)
\* Two tables are adjacent when either has a foreign key to the other.
Adjacent(schema, s, t) ==
    \/ \E fk \in Range(Lookup(schema, s).foreign_keys) : fk.ref_table = t
    \/ \E fk \in Range(Lookup(schema, t).foreign_keys) : fk.ref_table = s

\* The tables within k undirected foreign-key steps of the seeds.
RECURSIVE Ball(_, _, _)
Ball(schema, seeds, k) ==
    IF k = 0 THEN seeds
    ELSE LET inner == Ball(schema, seeds, k - 1)
         IN  inner \cup {t \in KeySet(schema) : \E s \in inner : Adjacent(schema, s, t)}

\* The tables at distance exactly d >= 1 from the seeds.
AtDistance(schema, seeds, d) == Ball(schema, seeds, d) \ Ball(schema, seeds, d - 1)

\* C9: before truncation graph_search holds exactly the tables at undirected
\* foreign-key distance 1..max_hops from the seeds, each once, with that
\* distance as graph_distance and score 1/(d+1), and no seed; for the
\* users/posts schema and query "user" it holds posts at hop 1 with score 1/2.
C9_GraphSearchReturnsTablesByDistance ==
    graph_out.status = "returned" =>
        LET schema == parsed.schema
            seeds  == Range(graph_out.start_tables)
            ranked == graph_out.ranked
        IN  /\ {ranked[i].name : i \in 1..Len(ranked)}
                  = {<<t>> : t \in UNION {AtDistance(schema, seeds, d) :
                                            d \in 1..graph_out.max_hops}}
            /\ \A i, j \in 1..Len(ranked) : ranked[i].name = ranked[j].name => i = j
            /\ \A i \in 1..Len(ranked) :
                  /\ ranked[i].graph_distance \in 1..graph_out.max_hops
                  /\ ranked[i].name[1]
                        \in AtDistance(schema, seeds, ranked[i].graph_distance)
                  /\ ranked[i].score = Rat(1, ranked[i].graph_distance + 1)
                  /\ ranked[i].name[1] \notin seeds
            /\ (input.data = ScenarioA /\ graph_out.query = "user"
                   /\ graph_out.max_hops >= 1)
                  => /\ Len(ranked) = 1
                     /\ ranked[1].name = <<"posts">>
                     /\ ranked[1].graph_distance = 1
                     /\ ranked[1].score = <<1, 2>>

\* Witness of C9: a search whose seeds were found by table name has reached a
\* table over an inbound foreign key at hop 1 and another table at hop 2.
C9_Witness ==
    /\ graph_out.status = "returned"
    /\ graph_out.start_tables = <<"users">>
    /\ \E i, j \in 1..Len(graph_out.ranked) :
          /\ graph_out.ranked[i].graph_distance = 1
          /\ graph_out.ranked[j].graph_distance = 2
          /\ \E fk \in Range(Lookup(parsed.schema, graph_out.ranked[i].name[1]).foreign_keys) :
                fk.ref_table = "users"

\* The tables and columns of a Schema in discovery order: each table, then
\* its columns in declaration order; an element is <<qualified name, name>>.
RECURSIVE Elements(_, _)
Elements(schema, n) ==
    IF n = 0 THEN <<>>
    ELSE Elements(schema, n - 1)
         \o <<[name |-> <<schema[n].name>>, label |-> schema[n].name]>>
         \o [i \in 1..Len(schema[n].columns) |->
                [name |-> <<schema[n].name, schema[n].columns[i].name>>,
                 label |-> schema[n].columns[i].name]]

\* The score of a name for a query: 1 when the lower-cased name contains the
\* lower-cased query, else their similarity ratio; for every pair of strings.
ElementScores ==
    [query \in Strings, label \in Strings |->
        IF Contains(Lower(Chars(query)), Lower(Chars(label))) THEN <<1, 1>>
        ELSE fuzzy_match(Lower(Chars(query)), Lower(Chars(label)))]

ElementScore(query, label) == ElementScores[query, label]

\* C10: keyword_search returns min(top_k, number of elements at or above the
\* threshold) elements, each with its score, none below the threshold, in
\* non-increasing score order, none scored lower than an element left out,
\* and with equal scores in discovery order, also across the cut.
C10_KeywordSearchTopK ==
    keyword_out.status = "returned" =>
        LET elems   == Elements(parsed.schema, Len(parsed.schema))
            score   == [i \in 1..Len(elems) |->
                           ElementScore(keyword_out.query, elems[i].label)]
            kept    == {i \in 1..Len(elems) : RatLeq(keyword_out.fuzzy_threshold, score[i])}
            results == keyword_out.results
            \* position in discovery order of the i-th result
            pos     == [i \in 1..Len(results) |->
                           CHOOSE e \in 1..Len(elems) : elems[e].name = results[i].name]
        IN  /\ Len(results) = Min2(keyword_out.top_k, Cardinality(kept))
            /\ \A i \in 1..Len(results) :
                  /\ \E e \in kept : elems[e].name = results[i].name
                  /\ results[i].score = score[pos[i]]
                  /\ RatLeq(keyword_out.fuzzy_threshold, results[i].score)
                  /\ results[i].type = IF Len(results[i].name) = 1 THEN "table" ELSE "column"
            /\ \A i, j \in 1..Len(results) :
                  i < j => /\ RatLeq(results[j].score, results[i].score)
                           /\ pos[i] # pos[j]
                           /\ results[i].score = results[j].score => pos[i] < pos[j]
            /\ \A e \in kept :
                  (\A i \in 1..Len(results) : pos[i] # e)
                     => \A i \in 1..Len(results) :
                           /\ RatLeq(score[e], results[i].score)
                           /\ score[e] = results[i].score => pos[i] < e
            /\ (keyword_out.query = "usr" /\ keyword_out.fuzzy_threshold = <<1, 2>>
                   /\ keyword_out.top_k >= 1)
                  => /\ results[1].name = <<"users">>
                     /\ results[1].score = <<3, 4>>

\* Witness of C10: a search has cut off elements that reach the threshold,
\* among them one that ties with a returned element, and has returned two
\* elements of equal score.
C10_Witness ==
    /\ keyword_out.status = "returned"
    /\ Len(keyword_out.results) = keyword_out.top_k
    /\ keyword_out.top_k >= 2
    /\ keyword_out.fuzzy_threshold # <<0, 1>>
    /\ \E i, j \in 1..Len(keyword_out.results) :
          i # j /\ keyword_out.results[i].score = keyword_out.results[j].score
    /\ \E i \in 1..Len(keyword_out.results) :
          RatLess(keyword_out.results[i].score, keyword_out.results[1].score)
    /\ LET elems == Elements(parsed.schema, Len(parsed.schema))
       IN  \E e \in 1..Len(elems) :
              /\ \A i \in 1..Len(keyword_out.results) :
                    keyword_out.results[i].name # elems[e].name
              /\ ElementScore(keyword_out.query, elems[e].label)
                    = keyword_out.results[Len(keyword_out.results)].score


(***************************************************************************)
(* Float arithmetic of the re-ranker, as exact fractions <<n, d>>, d > 0.  *)
(***************************************************************************)
Abs(n) == IF n < 0 THEN 0 - n ELSE n

\* The fraction n/d in lowest terms; n may be negative.
RatNorm(n, d) == LET g == GCD(Abs(n), d) IN <<n \div g, d \div g>>

\* 0.0
Zero == <<0, 1>>

\* 1.0
One == <<1, 1>>

RatAdd(x, y) == RatNorm(x[1] * y[2] + y[1] * x[2], x[2] * y[2])

RatSub(x, y) == RatNorm(x[1] * y[2] - y[1] * x[2], x[2] * y[2])

RatMul(x, y) == RatNorm(x[1] * y[1], x[2] * y[2])

\* x / y for y > 0
RatDiv(x, y) == RatNorm(x[1] * y[2], x[2] * y[1])

(***************************************************************************)
(* extract_features (core/hybrid_retriever.py, lines 64-101).              *)
(* A result or candidate is a dict: a function from its keys to values.    *)
(* all_candidates is the dict by name, in insertion order.                 *)
(***************************************************************************)
\* d[k] = v for every key k of upd, on a dict d.
SetFields(d, upd) ==
    [k \in DOMAIN d \cup DOMAIN upd |-> IF k \in DOMAIN upd THEN upd[k] ELSE d[k]]

\* d.get(key, default)
Get(d, key, default) == IF key \in DOMAIN d THEN d[key] ELSE default

\* Lines 67-77: every vector result (re)places the candidate of its name.
RECURSIVE MergeVector(_, _, _)
MergeVector(all_candidates, vector_results, n) ==
    IF n = 0 THEN all_candidates
    ELSE LET r == vector_results[n]
         IN  DictPut(MergeVector(all_candidates, vector_results, n - 1),
                     [name           |-> r.metadata.name,
                      type           |-> r.metadata.type,
                      text           |-> r.text,
                      vector_score   |-> RatSub(One, r.distance),
                      graph_score    |-> Zero,
                      keyword_score  |-> Zero,
                      graph_distance |-> NULL,
                      trace          |-> [k \in {"vector"} |-> r.distance]])

\* MergeGraph that replaces a candidate already present by the graph result.
RECURSIVE MergeGraphReplacing(_, _, _)
MergeGraphReplacing(all_candidates, graph_results, n) ==
    IF n = 0 THEN all_candidates
    ELSE LET r == graph_results[n]
         IN  DictPut(MergeGraphReplacing(all_candidates, graph_results, n - 1),
                     SetFields(r, [vector_score   |-> Zero,
                                   graph_score    |-> r.score,
                                   keyword_score  |-> Zero,
                                   graph_distance |-> Get(r, "graph_distance", NULL),
                                   trace |-> [k \in {"graph"} |->
                                                 Get(r, "graph_distance", 1)]]))

\* Lines 78-89: a graph result becomes the candidate of its name, or updates it.
RECURSIVE MergeGraph(_, _, _)
MergeGraph(all_candidates, graph_results, n) ==
    IF n = 0 THEN all_candidates
    ELSE LET prev == MergeGraph(all_candidates, graph_results, n - 1)
             r    == graph_results[n]
         IN  IF r.name \notin KeySet(prev)
             THEN DictPut(prev,
                     SetFields(r, [vector_score   |-> Zero,
                                   graph_score    |-> r.score,
                                   keyword_score  |-> Zero,
                                   graph_distance |-> Get(r, "graph_distance", NULL),
                                   trace |-> [k \in {"graph"} |->
                                                 Get(r, "graph_distance", 1)]]))
             ELSE LET c == Lookup(prev, r.name)
                  IN  DictPut(prev,
                         SetFields(c, [graph_score    |-> r.score,
                                       graph_distance |-> Get(r, "graph_distance", NULL),
                                       trace |-> SetFields(c.trace,
                                                    [k \in {"graph"} |->
                                                        Get(r, "graph_distance", 1)])]))

\* Lines 90-100: a keyword result becomes the candidate of its name, or updates it.
RECURSIVE MergeKeyword(_, _, _)
MergeKeyword(all_candidates, keyword_results, n) ==
    IF n = 0 THEN all_candidates
    ELSE LET prev == MergeKeyword(all_candidates, keyword_results, n - 1)
             r    == keyword_results[n]
         IN  IF r.name \notin KeySet(prev)
             THEN DictPut(prev,
                     SetFields(r, [vector_score   |-> Zero,
                                   graph_score    |-> Zero,
                                   keyword_score  |-> r.score,
                                   graph_distance |-> NULL,
                                   trace |-> [k \in {"keyword"} |-> r.score]]))
             ELSE LET c == Lookup(prev, r.name)
                  IN  DictPut(prev,
                         SetFields(c, [keyword_score |-> r.score,
                                       trace |-> SetFields(c.trace,
                                                    [k \in {"keyword"} |-> r.score])]))

\* Line 101: the candidates, in the order their names were first seen.
extract_features(vector_results, graph_results, keyword_results) ==
    MergeKeyword(
        MergeGraph(
            MergeVector(<<>>, vector_results, Len(vector_results)),
            graph_results, Len(graph_results)),
        keyword_results, Len(keyword_results))


(***************************************************************************)
(* rerank (core/hybrid_retriever.py, lines 104-146).                       *)
(***************************************************************************)
RECURSIVE MinOf(_, _)
MinOf(arr, n) ==
    IF n = 1 THEN arr[1]
    ELSE LET m == MinOf(arr, n - 1) IN IF RatLess(arr[n], m) THEN arr[n] ELSE m

RECURSIVE MaxOf(_, _)
MaxOf(arr, n) ==
    IF n = 1 THEN arr[1]
    ELSE LET m == MaxOf(arr, n - 1) IN IF RatLess(m, arr[n]) THEN arr[n] ELSE m

\* norm that maps equal scores to 1.0.
normEqualToOne(arr) ==
    LET minv == MinOf(arr, Len(arr))
        maxv == MaxOf(arr, Len(arr))
    IN  IF maxv = minv THEN [i \in 1..Len(arr) |-> One]
        ELSE [i \in 1..Len(arr) |-> RatDiv(RatSub(arr[i], minv), RatSub(maxv, minv))]

\* Lines 116-120: min-max normalization of a non-empty array.
norm(arr) ==
    LET minv == MinOf(arr, Len(arr))
        maxv == MaxOf(arr, Len(arr))
    IN  IF maxv = minv THEN [i \in 1..Len(arr) |-> Zero]
        ELSE [i \in 1..Len(arr) |-> RatDiv(RatSub(arr[i], minv), RatSub(maxv, minv))]

\* InsertByFinalScore that puts a candidate before those of equal final_score.
RECURSIVE InsertBeforeEqualFinalScore(_, _)
InsertBeforeEqualFinalScore(sorted, c) ==
    IF sorted = <<>> THEN <<c>>
    ELSE IF RatLeq(Head(sorted).final_score, c.final_score)
         THEN <<c>> \o sorted
         ELSE <<Head(sorted)>> \o InsertBeforeEqualFinalScore(Tail(sorted), c)

\* Line 146: sorted(candidates, key=final_score, reverse=True), a stable sort.
RECURSIVE InsertByFinalScore(_, _)
InsertByFinalScore(sorted, c) ==
    IF sorted = <<>> THEN <<c>>
    ELSE IF RatLess(Head(sorted).final_score, c.final_score)
         THEN <<c>> \o sorted
         ELSE <<Head(sorted)>> \o InsertByFinalScore(Tail(sorted), c)

RECURSIVE SortByFinalScoreDesc(_)
SortByFinalScoreDesc(cs) ==
    IF cs = <<>> THEN <<>>
    ELSE InsertByFinalScore(SortByFinalScoreDesc(SubSeq(cs, 1, Len(cs) - 1)), cs[Len(cs)])

\* Lines 124-145: the fields rerank sets on the candidate at idx.
Scored(c, idx, v_norm, g_norm, k_norm, w_vector, w_graph, w_keyword) ==
    LET final_score ==
            RatAdd(RatAdd(RatMul(w_vector, v_norm[idx]), RatMul(w_graph, g_norm[idx])),
                   RatMul(w_keyword, k_norm[idx]))
    IN  SetFields(c,
           [vector_score_norm  |-> v_norm[idx],
            graph_score_norm   |-> g_norm[idx],
            keyword_score_norm |-> k_norm[idx],
            final_score        |-> final_score,
            trace_log |->
               [vector_score_raw   |-> Get(c, "vector_score", Zero),
                vector_score_norm  |-> v_norm[idx],
                vector_weighted    |-> RatMul(w_vector, v_norm[idx]),
                graph_score_raw    |-> Get(c, "graph_score", Zero),
                graph_score_norm   |-> g_norm[idx],
                graph_weighted     |-> RatMul(w_graph, g_norm[idx]),
                keyword_score_raw  |-> Get(c, "keyword_score", Zero),
                keyword_score_norm |-> k_norm[idx],
                keyword_weighted   |-> RatMul(w_keyword, k_norm[idx]),
                final_score        |-> final_score]])

rerank(candidates, w_vector, w_graph, w_keyword) ==
    IF candidates = <<>> THEN <<>>
    ELSE LET v == [i \in 1..Len(candidates) |-> Get(candidates[i], "vector_score", Zero)]
             g == [i \in 1..Len(candidates) |-> Get(candidates[i], "graph_score", Zero)]
             k == [i \in 1..Len(candidates) |-> Get(candidates[i], "keyword_score", Zero)]
             v_norm == norm(v)
             g_norm == norm(g)
             k_norm == norm(k)
         IN  SortByFinalScoreDesc(
                 [idx \in 1..Len(candidates) |->
                     Scored(candidates[idx], idx, v_norm, g_norm, k_norm,
                            w_vector, w_graph, w_keyword)])

(***************************************************************************)
(* hybrid_retrieve (core/hybrid_retriever.py, lines 149-165).              *)
(***************************************************************************)
\* Default weights of rerank (line 104): 0.6, 0.2, 0.2.
DefaultWVector == <<3, 5>>

DefaultWGraph == <<1, 5>>

DefaultWKeyword == <<1, 5>>

\* Default max_hops of graph_search (line 27).
DefaultMaxHops == 2

\* Default fuzzy_threshold of keyword_search (line 13): 0.7.
DefaultFuzzyThreshold == <<7, 10>>

\* Lines 156-157: trace_log is replaced by the candidate's trace.
WithTrace(ranked) ==
    [i \in 1..Len(ranked) |->
        SetFields(ranked[i], [trace_log |-> Get(ranked[i], "trace", <<>>)])]

\* The dicts a result list holds once fusion and ranking are done: a result
\* that became a candidate (lines 80 and 92) is the candidate dict itself.
Shared(results, taken, ranked) ==
    [i \in 1..Len(results) |->
        IF results[i].name \in taken THEN results[i] ELSE Lookup(ranked, results[i].name)]

\* hybrid_retrieve, for the vector collaborator's results and one of the
\* start_tables lists graph_search can build.
hybrid_retrieve(query, schema, top_k, vector_results, start_tables) ==
    LET graph_results   == graph_search(start_tables, schema, top_k, DefaultMaxHops)
        keyword_results == keyword_search(query, schema, top_k, DefaultFuzzyThreshold)
        candidates == extract_features(vector_results, graph_results, keyword_results)
        reranked   == rerank(candidates, DefaultWVector, DefaultWGraph, DefaultWKeyword)
        ranked     == WithTrace(reranked)
        vnames     == {vector_results[i].metadata.name : i \in 1..Len(vector_results)}
    IN  [candidates  |-> candidates,
         reranked    |-> reranked,
         ranked      |-> Take(ranked, top_k),
         diagnostics |->
            [vector_results  |-> vector_results,
             graph_results   |-> Shared(graph_results, vnames, ranked),
             keyword_results |-> Shared(keyword_results,
                                        vnames \cup KeySet(graph_results), ranked),
             final_ranking   |-> Take(ranked, top_k)]]


(***************************************************************************)
(* Hybrid retrieval as a state machine: one hybrid_retrieve over a parsed  *)
(* Schema, then one rerank of the fused candidates with other weights.     *)
(***************************************************************************)
\* users and posts each have the columns id and tag_id; tags and logs each
\* reference the tables of their refs.
HybridTableDef(name, refs) ==
    LET targets == SelectSeq(<<"users", "posts">>, LAMBDA t : t \in refs)
    IN  TableDef(name, "dict",
                 <<TypedColumn("id", "type", TRUE)>>
                 \o [i \in 1..Len(targets) |->
                        TypedColumn(RefColumn(targets[i]), "type", FALSE)],
                 NULL,
                 [i \in 1..Len(targets) |-> FkDef(RefColumn(targets[i]), targets[i], "id")])

TaggedTableDef(name) ==
    TableDef(name, "dict",
             <<TypedColumn("id", "type", TRUE), TypedColumn("tag_id", "type", FALSE)>>,
             NULL, <<>>)

HybridRefSets == {r \in SUBSET {"users", "posts"} : Cardinality(r) <= MaxFks}

HybridDocuments ==
    {Document("mapping",
              <<TaggedTableDef("users"), TaggedTableDef("posts"),
                HybridTableDef("tags", tags_refs), HybridTableDef("logs", logs_refs)>>,
              Absent) : tags_refs \in HybridRefSets, logs_refs \in HybridRefSets}
    \cup {ScenarioA}

HybridQueries == {"user", "usr", "post", "tag_id", "zzz"}

\* What the vector collaborator may return: hits with distinct names, at most
\* top_k of them, each at a distance >= 0.
VectorNames == {<<"users">>, <<"logs">>, <<"posts", "tag_id">>}

Distances == {<<1, 4>>, <<3, 2>>}

VectorHit(name, distance) ==
    [text     |-> <<"chunk">> \o name,
     metadata |-> IF Len(name) = 1
                  THEN [table |-> name[1], name |-> name, type |-> "table"]
                  ELSE [table |-> name[1], column |-> name[2], name |-> name,
                        type |-> "column"],
     distance |-> distance]

VectorResults(top_k) ==
    UNION {{[i \in 1..n |-> VectorHit(names[i], dists[i])] :
               names \in {f \in [1..n -> VectorNames] :
                            \A i, j \in 1..n : f[i] = f[j] => i = j},
               dists \in [1..n -> Distances]}
           : n \in 0..Min2(top_k, Cardinality(VectorNames))}

\* Weights rerank is called with: the defaults, vector only, and equal weights.
Weights ==
    {<<DefaultWVector, DefaultWGraph, DefaultWKeyword>>,
     <<One, Zero, Zero>>,
     <<<<1, 3>>, <<1, 3>>, <<1, 3>>>>}

InitHybrid ==
    /\ input \in {DictInput(d) : d \in HybridDocuments}
    /\ parsed = SchemaParser_parse(input)
    /\ loaded = NotCalled
    /\ rag_triples = NotCalled
    /\ graph_out = NotCalled
    /\ keyword_out = NotCalled
    /\ hybrid_out = NotCalled
    /\ rerank_out = NotCalled
    /\ folder_out = NotCalled
    /\ context_out = NotCalled
    /\ join_out = NotCalled
    /\ neo4j = NoDriver

\* hybrid_retrieve(query, schema, top_k)
HybridRetrieve ==
    /\ parsed.status = "returned"
    /\ hybrid_out = NotCalled
    /\ rerank_out = NotCalled
    /\ \E query \in HybridQueries, top_k \in 1..MaxTopK :
          \E vector_results \in VectorResults(top_k),
             start_tables \in StartTables(Lower(Chars(query)), parsed.schema) :
             hybrid_out' =
                SetFields(hybrid_retrieve(query, parsed.schema, top_k,
                                          vector_results, start_tables),
                          [status |-> "returned", query |-> query, top_k |-> top_k,
                           vector_results |-> vector_results,
                           start_tables |-> start_tables,
                           graph_results |->
                              graph_search(start_tables, parsed.schema, top_k,
                                           DefaultMaxHops),
                           keyword_results |->
                              keyword_search(query, parsed.schema, top_k,
                                             DefaultFuzzyThreshold)])
    /\ UNCHANGED <<input, parsed, loaded, rag_triples, graph_out, keyword_out,
                   rerank_out, folder_out,
                   context_out, join_out, neo4j>>

\* rerank(candidates, w_vector, w_graph, w_keyword) on fused candidates
Rerank ==
    /\ hybrid_out.status = "returned"
    /\ rerank_out = NotCalled
    /\ \E w \in Weights :
          rerank_out' = [status |-> "returned", candidates |-> hybrid_out.candidates,
                         w_vector |-> w[1], w_graph |-> w[2], w_keyword |-> w[3],
                         ranked |-> rerank(hybrid_out.candidates, w[1], w[2], w[3])]
    /\ UNCHANGED <<input, parsed, loaded, rag_triples, graph_out, keyword_out,
                   hybrid_out, folder_out,
                   context_out, join_out, neo4j>>

NextHybrid == HybridRetrieve \/ Rerank

SpecHybrid == InitHybrid /\ [][NextHybrid]_vars


(***************************************************************************)
(* Properties of fusion.                                                   *)
(***************************************************************************)
VectorNamesOf(h) == {h.vector_results[i].metadata.name : i \in 1..Len(h.vector_results)}

\* The score a result list gives a name, 0.0 when the name is not in the list.
ScoreIn(results, name) ==
    IF name \in KeySet(results) THEN Lookup(results, name).score ELSE Zero

\* 1 - distance of the vector result of a name, 0.0 when there is none.
SimilarityIn(vector_results, name) ==
    IF \E i \in 1..Len(vector_results) : vector_results[i].metadata.name = name
    THEN LET i == CHOOSE j \in 1..Len(vector_results) :
                     vector_results[j].metadata.name = name
         IN  RatSub(One, vector_results[i].distance)
    ELSE Zero

\* C11: extract_features returns exactly one candidate per distinct name of
\* the three result lists; its vector_score is 1 - distance if the name is
\* among the vector results and 0.0 otherwise, its graph_score and
\* keyword_score are the graph and keyword result's score, 0.0 when absent.
C11_FusionOneCandidatePerName ==
    hybrid_out.status = "returned"
    => LET names == VectorNamesOf(hybrid_out) \cup KeySet(hybrid_out.graph_results)
                    \cup KeySet(hybrid_out.keyword_results)
           cands == hybrid_out.candidates
       IN  /\ KeySet(cands) = names
           /\ Len(cands) = Cardinality(names)
           /\ \A i \in 1..Len(cands) :
                 /\ cands[i].vector_score =
                       SimilarityIn(hybrid_out.vector_results, cands[i].name)
                 /\ cands[i].graph_score =
                       ScoreIn(hybrid_out.graph_results, cands[i].name)
                 /\ cands[i].keyword_score =
                       ScoreIn(hybrid_out.keyword_results, cands[i].name)

\* Witness of C11: fusion has merged a name found by the vector and the graph
\* search, a name found by the vector and the keyword search, and a name
\* found by one search only.
C11_Witness ==
    /\ hybrid_out.status = "returned"
    /\ VectorNamesOf(hybrid_out) \cap KeySet(hybrid_out.graph_results) # {}
    /\ VectorNamesOf(hybrid_out) \cap KeySet(hybrid_out.keyword_results) # {}
    /\ KeySet(hybrid_out.keyword_results) \ VectorNamesOf(hybrid_out) # {}
    /\ \E i \in 1..Len(hybrid_out.candidates) :
          /\ hybrid_out.candidates[i].vector_score # Zero
          /\ hybrid_out.candidates[i].graph_score # Zero

\* The three merging steps of extract_features, taken in the given order.
MergeSource(all_candidates, source, h) ==
    CASE source = "vector" ->
            MergeVector(all_candidates, h.vector_results, Len(h.vector_results))
      [] source = "graph" ->
            MergeGraph(all_candidates, h.graph_results, Len(h.graph_results))
      [] source = "keyword" ->
            MergeKeyword(all_candidates, h.keyword_results, Len(h.keyword_results))

MergeInOrder(order, h) ==
    MergeSource(MergeSource(MergeSource(<<>>, order[1], h), order[2], h), order[3], h)

NamedScores(cands) ==
    {<<cands[i].name, cands[i].vector_score, cands[i].graph_score,
       cands[i].keyword_score>> : i \in 1..Len(cands)}

Signals == {"vector", "graph", "keyword"}

RawKey(signal) ==
    CASE signal = "vector" -> "vector_score"
      [] signal = "graph" -> "graph_score"
      [] signal = "keyword" -> "keyword_score"

NormKey(signal) ==
    CASE signal = "vector" -> "vector_score_norm"
      [] signal = "graph" -> "graph_score_norm"
      [] signal = "keyword" -> "keyword_score_norm"

RawScores(cands, signal) == {cands[i][RawKey(signal)] : i \in 1..Len(cands)}

Lowest(scores) == CHOOSE x \in scores : \A y \in scores : RatLeq(x, y)

Highest(scores) == CHOOSE x \in scores : \A y \in scores : RatLeq(y, x)

\* C13: rerank of a non-empty candidate list returns, and for each signal
\* independently the normalized score of every candidate is 0.0 when all raw
\* scores of the signal are equal; otherwise it is (x - min)/(max - min),
\* within [0, 1], 0 for the minimum and 1 for the maximum.
C13_NormalizationIsMinMax ==
    (hybrid_out.status = "returned" /\ hybrid_out.candidates # <<>>
     /\ rerank_out.status # "none")
    => /\ rerank_out.status = "returned"
       /\ Len(rerank_out.ranked) = Len(rerank_out.candidates)
       /\ \A signal \in Signals, i \in 1..Len(rerank_out.ranked) :
             LET r    == rerank_out.ranked[i]
                 raws == RawScores(rerank_out.candidates, signal)
                 lo   == Lowest(raws)
                 hi   == Highest(raws)
                 x    == r[RawKey(signal)]
                 n    == r[NormKey(signal)]
             IN  IF Cardinality(raws) = 1 THEN n = Zero
                 ELSE /\ RatMul(n, RatSub(hi, lo)) = RatSub(x, lo)
                      /\ RatLeq(Zero, n) /\ RatLeq(n, One)
                      /\ (x = lo => n = Zero)
                      /\ (x = hi => n = One)

\* Witness of C13: rerank has normalized several candidates whose raw scores
\* are all equal for one signal and take three different values for another.
C13_Witness ==
    /\ rerank_out.status = "returned"
    /\ Len(rerank_out.ranked) >= 3
    /\ \E signal \in Signals :
          /\ Cardinality(RawScores(rerank_out.candidates, signal)) = 1
          /\ \A i \in 1..Len(rerank_out.ranked) :
                rerank_out.ranked[i][NormKey(signal)] = Zero
    /\ \E signal \in Signals, i \in 1..Len(rerank_out.ranked) :
          /\ Cardinality(RawScores(rerank_out.candidates, signal)) >= 3
          /\ rerank_out.ranked[i][NormKey(signal)] \notin {Zero, One}

\* The position of the candidate of a name.
IndexOf(cands, name) == CHOOSE i \in 1..Len(cands) : cands[i].name = name

\* C14: rerank returns a permutation of its input candidates, each with
\* final_score = w_vector*v_norm + w_graph*g_norm + w_keyword*k_norm, in
\* non-increasing final_score order, candidates of equal final_score in the
\* relative order they had in the input.
C14_RerankSortsStably ==
    rerank_out.status = "returned"
    => LET cands  == rerank_out.candidates
           ranked == rerank_out.ranked
       IN  /\ Len(ranked) = Len(cands)
           /\ KeySet(ranked) = KeySet(cands)
           /\ \A i \in 1..Len(ranked) :
                 /\ \A k \in DOMAIN Lookup(cands, ranked[i].name) :
                       ranked[i][k] = Lookup(cands, ranked[i].name)[k]
                 /\ ranked[i].final_score =
                       RatAdd(RatMul(rerank_out.w_vector, ranked[i].vector_score_norm),
                              RatAdd(RatMul(rerank_out.w_graph, ranked[i].graph_score_norm),
                                     RatMul(rerank_out.w_keyword,
                                            ranked[i].keyword_score_norm)))
           /\ \A i, j \in 1..Len(ranked) :
                 i < j => /\ RatLeq(ranked[j].final_score, ranked[i].final_score)
                          /\ ranked[i].final_score = ranked[j].final_score
                                => IndexOf(cands, ranked[i].name)
                                      < IndexOf(cands, ranked[j].name)

\* Witness of C14: rerank has moved a candidate ahead of an earlier one and
\* has kept two candidates of equal, non-zero final_score in input order.
C14_Witness ==
    /\ rerank_out.status = "returned"
    /\ \E i, j \in 1..Len(rerank_out.ranked) :
          /\ i < j
          /\ IndexOf(rerank_out.candidates, rerank_out.ranked[i].name)
                > IndexOf(rerank_out.candidates, rerank_out.ranked[j].name)
    /\ \E i, j \in 1..Len(rerank_out.ranked) :
          /\ i < j
          /\ rerank_out.ranked[i].final_score = rerank_out.ranked[j].final_score
          /\ rerank_out.ranked[i].final_score # Zero


(***************************************************************************)
(* Properties of hybrid_retrieve.                                          *)
(***************************************************************************)
TraceLogKeys ==
    {"vector_score_raw", "vector_score_norm", "vector_weighted",
     "graph_score_raw", "graph_score_norm", "graph_weighted",
     "keyword_score_raw", "keyword_score_norm", "keyword_weighted", "final_score"}

\* C15: every candidate hybrid_retrieve returns, in the ranked list and in
\* diagnostics.final_ranking, carries a trace_log with the raw score, the
\* normalized score and the weighted contribution of each signal and the
\* final score, equal to the values rerank computed for it.
C15_TraceLogExposesScores ==
    hybrid_out.status = "returned"
    => \A c \in Range(hybrid_out.ranked) \cup Range(hybrid_out.diagnostics.final_ranking) :
          /\ DOMAIN c.trace_log = TraceLogKeys
          /\ \A k \in TraceLogKeys :
                c.trace_log[k] = Lookup(hybrid_out.reranked, c.name).trace_log[k]

\* C16: the ranked list is the first top_k entries of the full ranking and
\* diagnostics.final_ranking is the full ranking: it holds every fused
\* candidate, also when there are more than top_k of them.
C16_FinalRankingIsFull ==
    hybrid_out.status = "returned"
    => /\ hybrid_out.ranked = Take(WithTrace(hybrid_out.reranked), hybrid_out.top_k)
       /\ Len(hybrid_out.ranked) = Min2(hybrid_out.top_k, Len(hybrid_out.candidates))
       /\ hybrid_out.diagnostics.final_ranking = WithTrace(hybrid_out.reranked)
       /\ Len(hybrid_out.diagnostics.final_ranking) = Len(hybrid_out.candidates)

\* What a caller sees of a ranked list: names in order, scores and trace logs.
Visible(ranked) ==
    [i \in 1..Len(ranked) |->
        <<ranked[i].name, ranked[i].vector_score, ranked[i].graph_score,
          ranked[i].keyword_score, ranked[i].final_score, DOMAIN ranked[i].trace_log>>]

SameOutput(a, b) ==
    /\ Visible(a) = Visible(b)
    /\ \A i \in 1..Len(a) : a[i].trace_log = b[i].trace_log

\* C17: for the same query, Schema and vector results, every run of
\* hybrid_retrieve gives the same ranked output and trace logs, whatever the
\* order in which the seed set of graph_search is listed.
C17_HybridRetrieveDeterministic ==
    hybrid_out.status = "returned"
    => \A start_tables \in StartTables(Lower(Chars(hybrid_out.query)), parsed.schema) :
          SameOutput(hybrid_retrieve(hybrid_out.query, parsed.schema, hybrid_out.top_k,
                                     hybrid_out.vector_results, start_tables).ranked,
                     hybrid_out.ranked)


(***************************************************************************)
(* load_folder_schema (core/ingest_utils.py, lines 5-37).                  *)
(* A file is [readable, content]: whether read_text succeeds, and the text.*)
(***************************************************************************)
\* MergeColumns in which a later file's column replaces the one present.
RECURSIVE MergeColumnsLastWins(_, _, _)
MergeColumnsLastWins(existing, columns, n) ==
    IF n = 0 THEN existing
    ELSE LET prev == MergeColumnsLastWins(existing, columns, n - 1)
         IN  [prev EXCEPT !.columns = DictPut(prev.columns, columns[n])]

\* MergeColumns that adds every column, present or not.
RECURSIVE MergeColumnsAppending(_, _, _)
MergeColumnsAppending(existing, columns, n) ==
    IF n = 0 THEN existing
    ELSE LET prev == MergeColumnsAppending(existing, columns, n - 1)
         IN  [prev EXCEPT !.columns = Append(prev.columns, columns[n])]

\* Lines 30-32: the columns the existing table does not have are added to it.
RECURSIVE MergeColumns(_, _, _)
MergeColumns(existing, columns, n) ==
    IF n = 0 THEN existing
    ELSE LET prev == MergeColumns(existing, columns, n - 1)
         IN  IF columns[n].name \notin KeySet(prev.columns)
             THEN [prev EXCEPT !.columns = DictPut(prev.columns, columns[n])]
             ELSE prev

\* Lines 23-32: the first n tables of a parsed file are merged.
RECURSIVE MergeTables(_, _, _)
MergeTables(master_schema, schema, n) ==
    IF n = 0 THEN master_schema
    ELSE LET prev == MergeTables(master_schema, schema, n - 1)
             tbl  == schema[n]
         IN  IF tbl.name \notin KeySet(prev)
             THEN DictPut(prev, tbl)
             ELSE DictPut(prev, MergeColumns(Lookup(prev, tbl.name), tbl.columns,
                                             Len(tbl.columns)))

\* Lines 19-36: one file; any exception leaves master_schema as it is.
MergeFile(master_schema, file) ==
    IF ~file.readable THEN master_schema
    ELSE LET r == SchemaParser_parse(file.content)
         IN  IF r.status = "raised" THEN master_schema
             ELSE MergeTables(master_schema, r.schema, Len(r.schema))

\* MergeFiles that gives up at the first file that fails.
RECURSIVE MergeFilesUntilFailure(_, _, _)
MergeFilesUntilFailure(master_schema, files, n) ==
    IF n = 0 THEN master_schema
    ELSE IF \E i \in 1..n :
               \/ ~files[i].readable
               \/ SchemaParser_parse(files[i].content).status = "raised"
         THEN MergeFilesUntilFailure(master_schema, files, n - 1)
         ELSE MergeFile(MergeFilesUntilFailure(master_schema, files, n - 1), files[n])

\* Lines 18-36: the loop over the first n files.
RECURSIVE MergeFiles(_, _, _)
MergeFiles(master_schema, files, n) ==
    IF n = 0 THEN master_schema
    ELSE MergeFile(MergeFiles(master_schema, files, n - 1), files[n])

load_folder_schema(folder) ==
    IF ~folder.is_dir THEN EmptySchema
    ELSE MergeFiles(EmptySchema, folder.files, Len(folder.files))

(***************************************************************************)
(* Folder ingestion as a state machine.                                    *)
(***************************************************************************)
\* Most files in a folder.
MaxFiles == 3

File(readable, content) == [readable |-> readable, content |-> content]

UsersWith(column) == TableDef("users", "dict", <<column>>, NULL, <<>>)

PostsReferringUsers ==
    TableDef("posts", "dict",
             <<TypedColumn("id", "type", TRUE), TypedColumn("user_id", "type", FALSE)>>,
             NULL, <<FkDef("user_id", "users", "id")>>)

\* The files a folder may hold: users.id, users.email, users.id typed as
\* text, posts referring to users with and without users in the same file
\* (the latter fails validation), posts.id alone, a text that is not a
\* mapping, a text that cannot be decoded, and a file that cannot be read.
FolderFiles ==
    {File(TRUE, TextInput("json",
            Document("mapping", <<UsersWith(TypedColumn("id", "type", TRUE))>>, Absent))),
     File(TRUE, TextInput("yaml",
            Document("list", <<UsersWith(TypedColumn("email", "data_type", FALSE))>>,
                     Absent))),
     File(TRUE, TextInput("json",
            Document("mapping", <<UsersWith(ColumnDef("id", "text", NULL, FALSE))>>,
                     Absent))),
     File(TRUE, TextInput("json",
            Document("mapping",
                     <<UsersWith(TypedColumn("id", "type", TRUE)), PostsReferringUsers>>,
                     Absent))),
     File(TRUE, TextInput("json", Document("mapping", <<PostsReferringUsers>>, Absent))),
     File(TRUE, TextInput("json",
            Document("mapping",
                     <<TableDef("posts", "dict", <<TypedColumn("id", "type", TRUE)>>,
                                NULL, <<>>)>>,
                     Absent))),
     File(TRUE, TextInput("json", [kind |-> "list"])),
     File(TRUE, Undecodable),
     File(FALSE, Undecodable)}

Folder(is_dir, files) == [form |-> "folder", is_dir |-> is_dir, files |-> files]

InitFolder ==
    /\ \E n \in 0..MaxFiles :
          \E files \in [1..n -> FolderFiles] :
             \/ input = Folder(TRUE, files)
             \/ n = 0 /\ input = Folder(FALSE, files)
    /\ parsed = NotCalled
    /\ loaded = NotCalled
    /\ rag_triples = NotCalled
    /\ graph_out = NotCalled
    /\ keyword_out = NotCalled
    /\ hybrid_out = NotCalled
    /\ rerank_out = NotCalled
    /\ folder_out = NotCalled
    /\ context_out = NotCalled
    /\ join_out = NotCalled
    /\ neo4j = NoDriver

\* load_folder_schema(folder_path)
LoadFolder ==
    /\ folder_out = NotCalled
    /\ folder_out' = [status |-> "returned", schema |-> load_folder_schema(input)]
    /\ UNCHANGED <<input, parsed, loaded, rag_triples, graph_out, keyword_out,
                   hybrid_out, rerank_out,
                   context_out, join_out, neo4j>>

NextFolder == LoadFolder

SpecFolder == InitFolder /\ [][NextFolder]_vars


(***************************************************************************)
(* Properties of folder ingestion.                                         *)
(***************************************************************************)
\* The file is read and parsed without an exception.
Succeeds(file) ==
    file.readable /\ SchemaParser_parse(file.content).status = "returned"

\* The Schema of a file that succeeds.
SchemaOf(file) == SchemaParser_parse(file.content).schema

\* The positions of the files that succeed and declare the table / the column.
Declaring(files, table_name) ==
    {i \in 1..Len(files) : Succeeds(files[i]) /\ table_name \in KeySet(SchemaOf(files[i]))}

DeclaringColumn(files, table_name, col_name) ==
    {i \in Declaring(files, table_name) :
        col_name \in ColumnNames(Lookup(SchemaOf(files[i]), table_name))}

First(S) == CHOOSE i \in S : \A j \in S : i <= j

\* C18: after load_folder_schema every table declared in a successfully
\* parsed file appears exactly once in the merged Schema, its columns are the
\* union by name of the columns the files declare for it, and a column
\* declared by several files is the Column of the first of them, unchanged.
C18_FolderMergeIsUnionFirstWins ==
    (folder_out.status = "returned" /\ input.is_dir)
    => LET files  == input.files
           merged == folder_out.schema
           names  == UNION {KeySet(SchemaOf(files[i])) :
                               i \in {j \in 1..Len(files) : Succeeds(files[j])}}
       IN  /\ KeySet(merged) = names
           /\ Len(merged) = Cardinality(names)
           /\ \A t \in Range(merged) :
                 /\ ColumnNames(t) =
                       UNION {ColumnNames(Lookup(SchemaOf(files[i]), t.name)) :
                                 i \in Declaring(files, t.name)}
                 /\ Len(t.columns) = Cardinality(ColumnNames(t))
                 /\ \A c \in Range(t.columns) :
                       c = Lookup(Lookup(SchemaOf(files[
                                     First(DeclaringColumn(files, t.name, c.name))]),
                                         t.name).columns, c.name)

\* Witness of C18 (Scenario E with a conflicting file): files declaring
\* users.id, users.email and users.id of another type have been merged into
\* one users table with id as first declared and email.
C18_Witness ==
    /\ folder_out.status = "returned"
    /\ Keys(folder_out.schema) = <<"users">>
    /\ ColumnNames(Lookup(folder_out.schema, "users")) = {"id", "email"}
    /\ \E i, j \in DeclaringColumn(input.files, "users", "id") :
          /\ i < j
          /\ Lookup(Lookup(SchemaOf(input.files[i]), "users").columns, "id")
                # Lookup(Lookup(SchemaOf(input.files[j]), "users").columns, "id")

\* C19: folder merging is idempotent: merging the same files a second time
\* into the merged Schema leaves its tables and columns unchanged, and a
\* folder holding every file twice loads to the same Schema.
C19_FolderMergeIdempotent ==
    (folder_out.status = "returned" /\ input.is_dir)
    => /\ MergeFiles(folder_out.schema, input.files, Len(input.files))
             = folder_out.schema
       /\ load_folder_schema(Folder(TRUE, input.files \o input.files))
             = folder_out.schema

\* Witness of C19: the merged Schema comes from several files that declare
\* the same table with different columns.
C19_Witness ==
    /\ folder_out.status = "returned"
    /\ \E i, j \in Declaring(input.files, "users") :
          ColumnNames(Lookup(SchemaOf(input.files[i]), "users"))
             # ColumnNames(Lookup(SchemaOf(input.files[j]), "users"))
    /\ Len(Lookup(folder_out.schema, "users").columns) = 2
    /\ MergeFiles(folder_out.schema, input.files, Len(input.files)) = folder_out.schema

\* C20: a file that cannot be read or whose parse raises is skipped: the
\* merged Schema is the one the other files alone give, wherever the failing
\* file stands among them, and load_folder_schema returns without a failure.
C20_FailingFilesAreSkipped ==
    (folder_out.status # "none" /\ input.is_dir)
    => /\ folder_out.status = "returned"
       /\ folder_out.schema =
             load_folder_schema(Folder(TRUE, SelectSeq(input.files, Succeeds)))
       /\ \A i \in 1..Len(input.files) :
             Succeeds(input.files[i])
                => KeySet(SchemaOf(input.files[i])) \subseteq KeySet(folder_out.schema)

\* Witness of C20: a file failing validation comes first, an unreadable file
\* last, and the file between them has been merged.
C20_Witness ==
    /\ folder_out.status = "returned"
    /\ Len(input.files) = 3
    /\ input.files[1].readable
    /\ SchemaParser_parse(input.files[1].content).status = "raised"
    /\ SchemaParser_parse(input.files[1].content).error.type = "ValueError"
    /\ Succeeds(input.files[2])
    /\ ~input.files[3].readable
    /\ folder_out.schema = SchemaOf(input.files[2])
    /\ folder_out.schema # EmptySchema


(***************************************************************************)
(* Further properties of the parser.                                       *)
(***************************************************************************)
\* The table definitions of a schema document that carry a name and declare
\* at least one column.
NamedTableDefs(data) ==
    {d \in Range(TableDefsOf(data)) :
        d.kind = "dict" /\ Truthy(d.name) /\ d.columns.items # <<>>}

\* C21: in each of the three document shapes a column's data_type is its
\* `type` if non-empty, otherwise its `data_type`; a column with neither is
\* dropped while its table and the table's other columns are still parsed,
\* and a column with either one is kept.
C21_ColumnTypingInEveryShape ==
    (parsed.status = "returned" /\ IsSchemaDocument(input))
    => \A d \in NamedTableDefs(input.data) :
          /\ d.name \in KeySet(parsed.schema)
          /\ \A c \in Range(d.columns.items) :
                LET columns == Lookup(parsed.schema, d.name).columns
                IN  IF Truthy(c.type) \/ Truthy(c.data_type)
                    THEN /\ c.name \in KeySet(columns)
                         /\ Lookup(columns, c.name).data_type =
                               (IF Truthy(c.type) THEN c.type ELSE c.data_type)
                    ELSE c.name \notin KeySet(columns)


\* The document has one of the three primary shapes.
HasPrimaryShape(data) ==
    data.tables.kind \in {"dict", "list"} \/ data.models.kind = "list"

\* The bare names the examples of a document mention.
ExampleNames(data) ==
    IF data.examples.kind = "list"
    THEN {n \in UNION {Range(data.examples.items[i]) :
                          i \in 1..Len(data.examples.items)} : Truthy(n)}
    ELSE {}

\* C22: stub tables are seeded from `examples` only when none of the three
\* primary shapes matched: a document with a `tables` mapping, a `tables`
\* list or a `models` list gets no table from `examples`, even when that
\* shape yields zero tables; when the fallback is used, each distinct bare
\* name yields one Table without columns, primary key or foreign keys.
C22_ExamplesOnlyWithoutPrimaryShape ==
    (/\ parsed.status = "returned"
     /\ input.decoder # "fail"
     /\ input.data.kind = "dict")
    => IF HasPrimaryShape(input.data)
       THEN KeySet(parsed.schema)
               \subseteq {d.name : d \in Range(TableDefsOf(input.data))}
       ELSE /\ KeySet(parsed.schema) = ExampleNames(input.data)
            /\ Len(parsed.schema) = Cardinality(ExampleNames(input.data))
            /\ \A t \in Range(parsed.schema) : t = Table(t.name, <<>>, NULL, <<>>)

\* The names a table definition's typed columns declare.
TypedColumnNames(d) ==
    {c.name : c \in {x \in Range(d.columns.items) :
                        Truthy(x.type) \/ Truthy(x.data_type)}}

\* Every foreign key the document declares refers, once its names are
\* sanitized, to a declared table and one of its typed columns; every
\* top-level primary key names a typed column.
ResolvesWhenSanitized(data) ==
    \A d \in Range(TableDefsOf(data)) :
       /\ Truthy(d.primary_key) => d.primary_key \in TypedColumnNames(d)
       /\ \A fk \in Range(d.foreign_keys) :
             \E r \in Range(TableDefsOf(data)) :
                /\ r.name = Sanitize(fk.table)
                /\ Sanitize(fk.ref_column) \in TypedColumnNames(r)

\* C23: in the mapping and the list shape the ref_table and ref_column of a
\* parsed ForeignKey are the declared names without leading and trailing
\* non-word characters, so a reference written with surrounding punctuation
\* resolves to the clean table and column and passes validation.
C23_ForeignKeyNamesSanitized ==
    (/\ parsed.status # "none"
     /\ IsSchemaDocument(input)
     /\ ShapeOf(input.data) \in {"mapping", "list"}
     /\ ResolvesWhenSanitized(input.data))
    => /\ parsed.status = "returned"
       /\ \A d \in Range(TableDefsOf(input.data)) :
             \A fk \in Range(d.foreign_keys) :
                \E f \in Range(Lookup(parsed.schema, d.name).foreign_keys) :
                   /\ f.ref_table = Sanitize(fk.table)
                   /\ f.ref_column = Sanitize(fk.ref_column)


(***************************************************************************)
(* Further properties of graph_search.                                     *)
(***************************************************************************)
\* The query is part of the name, compared in lower case.
NameContains(name, query) == Contains(Lower(Chars(query)), Lower(Chars(name)))

\* C24: when no table name contains the query, the seeds of graph_search are
\* the tables that own a column whose name contains the query and the tables
\* with a foreign key to a table whose name contains it, each once; the
\* tables within max_hops of the seeds are found with score 1/(h+1) and the
\* first top_k of them returned; without any match the result is empty.
C24_SeedsFromTriples ==
    (/\ graph_out.status = "returned"
     /\ \A t \in KeySet(parsed.schema) : ~NameContains(t, graph_out.query))
    => LET schema == parsed.schema
           owners == {t.name : t \in {u \in Range(schema) :
                         \E c \in Range(u.columns) : NameContains(c.name, graph_out.query)}}
           referrers == {t.name : t \in {u \in Range(schema) :
                            \E fk \in Range(u.foreign_keys) :
                               NameContains(fk.ref_table, graph_out.query)}}
           seeds  == owners \cup referrers
           ranked == graph_out.ranked
       IN  /\ Range(graph_out.start_tables) = seeds
           /\ Len(graph_out.start_tables) = Cardinality(seeds)
           /\ {<<ranked[i].name[1], ranked[i].score>> : i \in 1..Len(ranked)}
                 = UNION {{<<t, Rat(1, h + 1)>> : t \in AtDistance(schema, seeds, h)} :
                             h \in 1..graph_out.max_hops}
           /\ Len(ranked) = Cardinality({ranked[i].name : i \in 1..Len(ranked)})
           /\ graph_out.results = Take(ranked, graph_out.top_k)
           /\ seeds = {} => graph_out.results = <<>>

\* Witness of C24: a query found in no table name but in a column of two
\* tables has seeded the search from both and reached a third table.
C24_Witness ==
    /\ graph_out.status = "returned"
    /\ \A t \in KeySet(parsed.schema) : ~NameContains(t, graph_out.query)
    /\ Len(graph_out.start_tables) = 2
    /\ graph_out.results # <<>>
    /\ graph_out.results[1].score = <<1, 2>>


(***************************************************************************)
(* Further properties of hybrid_retrieve.                                  *)
(***************************************************************************)
\* Two result lists hold entries with the same keys and values.
SameEntries(a, b) ==
    /\ Len(a) = Len(b)
    /\ \A i \in 1..Len(a) :
          /\ DOMAIN a[i] = DOMAIN b[i]
          /\ \A k \in DOMAIN a[i] : a[i][k] = b[i][k]

\* C25: the three raw result sets in the diagnostics are what the vector,
\* graph and keyword searchers returned: fusion and re-ranking add, remove
\* or change no field of any of their entries.
C25_DiagnosticsHoldRawResults ==
    hybrid_out.status = "returned"
    => /\ SameEntries(hybrid_out.diagnostics.vector_results, hybrid_out.vector_results)
       /\ SameEntries(hybrid_out.diagnostics.graph_results, hybrid_out.graph_results)
       /\ SameEntries(hybrid_out.diagnostics.keyword_results, hybrid_out.keyword_results)


(***************************************************************************)
(* Further properties of folder ingestion.                                 *)
(***************************************************************************)
\* C26: the Schema load_folder_schema builds from files that all parse
\* satisfies the invariants of a parsed Schema: every foreign key refers to a
\* table and column of the merged Schema, and every column that carries a
\* foreign key has the same ForeignKey under Table.foreign_keys, where
\* graph_search looks for it.
C26_MergedSchemaKeepsInvariants ==
    (/\ folder_out.status = "returned"
     /\ input.is_dir
     /\ \A i \in 1..Len(input.files) : Succeeds(input.files[i]))
    => \A t \in Range(folder_out.schema) :
          /\ \A fk \in Range(t.foreign_keys) :
                /\ fk.ref_table \in KeySet(folder_out.schema)
                /\ fk.ref_column \in ColumnNames(Lookup(folder_out.schema, fk.ref_table))
          /\ \A c \in Range(t.columns) :
                c.foreign_key # <<>>
                   => /\ c.foreign_key[1].ref_table \in KeySet(folder_out.schema)
                      /\ c.foreign_key[1] \in Range(t.foreign_keys)
                      /\ c.foreign_key[1].column = c.name


(***************************************************************************)
(* core/context_builder.py: the schema context handed to the LLM.  A text  *)
(* is a sequence of lines, a line a sequence of words; count_tokens counts *)
(* the words of a text.                                                    *)
(***************************************************************************)
RECURSIVE count_tokens(_)
count_tokens(text) ==
    IF text = <<>> THEN 0 ELSE Len(Head(text)) + count_tokens(Tail(text))

prompt_prefix == <<<<"Relevant", "Database", "Schema:">>>>

DefaultMaxTokens == 3000

\* format_table_ddl(table): a header, a line per column, a line per foreign
\* key, the comma of the last line removed, and a closing line.
format_table_ddl(table) ==
    LET header == <<<<"TABLE", table.name, "(">>>>
        cols == [i \in 1..Len(table.columns) |->
                    <<table.columns[i].name, table.columns[i].data_type>>
                    \o (IF table.columns[i].is_primary THEN <<"PRIMARY", "KEY">> ELSE <<>>)
                    \o (IF table.columns[i].is_unique THEN <<"UNIQUE">> ELSE <<>>)
                    \o <<",">>]
        fks == [i \in 1..Len(table.foreign_keys) |->
                   <<"FOREIGN", "KEY", table.foreign_keys[i].column, "REFERENCES",
                     table.foreign_keys[i].ref_table, table.foreign_keys[i].ref_column,
                     ",">>]
        lines == header \o cols \o fks
        last == lines[Len(lines)]
        trimmed == IF last[Len(last)] = ","
                   THEN [lines EXCEPT ![Len(lines)] = SubSeq(last, 1, Len(last) - 1)]
                   ELSE lines
    IN  trimmed \o <<<<");">>>>

\* The loop state of build_context_for_llm: the parts appended so far, the
\* tokens they use, the tables included, and whether the loop has left.
ContextStart ==
    [parts |-> <<>>, tokens |-> count_tokens(prompt_prefix), included |-> {},
     stopped |-> FALSE]

Include(st, table) ==
    [st EXCEPT !.parts = Append(@, [table |-> table.name, ddl |-> format_table_ddl(table)]),
               !.tokens = @ + count_tokens(format_table_ddl(table)),
               !.included = @ \cup {table.name}]

Fits(st, table, max_tokens) ==
    st.tokens + count_tokens(format_table_ddl(table)) <= max_tokens

\* The inner loop over related_tables_to_add, visited in the given order; it
\* leaves at the first related table that does not fit.
RECURSIVE AddRelated(_, _, _, _)
AddRelated(order, schema, max_tokens, st) ==
    IF order = <<>> THEN st
    ELSE IF Head(order) \in st.included
         THEN AddRelated(Tail(order), schema, max_tokens, st)
         ELSE IF Fits(st, Lookup(schema, Head(order)), max_tokens)
              THEN AddRelated(Tail(order), schema, max_tokens,
                              Include(st, Lookup(schema, Head(order))))
              ELSE st

\* One iteration over a ranked item: the states it may leave the loop in,
\* one per order in which the set of related tables is visited.
ContextStep(item, schema, max_tokens, st) ==
    LET metadata == Get(item, "metadata", <<>>)
        table_name == Get(metadata, "table", NULL)
        Stop(s) == IF s.tokens >= max_tokens THEN [s EXCEPT !.stopped = TRUE] ELSE s
    IN  IF st.stopped \/ table_name = NULL \/ table_name \notin KeySet(schema)
        THEN {st}
        ELSE IF table_name \in st.included THEN {Stop(st)}
        ELSE IF ~Fits(st, Lookup(schema, table_name), max_tokens)
             THEN {[st EXCEPT !.stopped = TRUE]}
             ELSE LET table == Lookup(schema, table_name)
                      st1 == Include(st, table)
                      related == {fk.ref_table : fk \in Range(table.foreign_keys)}
                                 \cap (KeySet(schema) \ st1.included)
                  IN  {Stop(AddRelated(o, schema, max_tokens, st1)) : o \in Orders(related)}

RECURSIVE ContextLoop(_, _, _, _)
ContextLoop(ranked_results, schema, max_tokens, states) ==
    IF ranked_results = <<>> THEN states
    ELSE ContextLoop(Tail(ranked_results), schema, max_tokens,
                     UNION {ContextStep(Head(ranked_results), schema, max_tokens, st)
                            : st \in states})

\* build_context_for_llm(ranked_results, schema, max_tokens): the contexts it
\* may return, each the prefix followed by the joined parts.
build_context_for_llm(ranked_results, schema, max_tokens) ==
    {[prefix |-> prompt_prefix, parts |-> st.parts]
       : st \in ContextLoop(ranked_results, schema, max_tokens, {ContextStart})}


(***************************************************************************)
(* Context building as a state machine: one hybrid_retrieve over a parsed  *)
(* Schema, then build_context_for_llm over its ranked candidates, as       *)
(* generate_sql calls it, or over the hits of the vector collaborator.     *)
(***************************************************************************)
ContextDocuments ==
    {Document("mapping",
              <<TaggedTableDef("users"), TaggedTableDef("posts"),
                HybridTableDef("tags", tags_refs), HybridTableDef("logs", {"posts"})>>,
              Absent) : tags_refs \in SUBSET {"users", "posts"}}

\* Budgets: too small for any table, room for one or two, and the default.
MaxTokensChoices == {10, 25, DefaultMaxTokens}

InitContext ==
    /\ input \in {DictInput(d) : d \in ContextDocuments}
    /\ parsed = SchemaParser_parse(input)
    /\ loaded = NotCalled
    /\ rag_triples = NotCalled
    /\ graph_out = NotCalled
    /\ keyword_out = NotCalled
    /\ hybrid_out = NotCalled
    /\ rerank_out = NotCalled
    /\ folder_out = NotCalled
    /\ context_out = NotCalled
    /\ join_out = NotCalled
    /\ neo4j = NoDriver

\* build_context_for_llm(ranked_results, schema, max_tokens)
BuildContext ==
    /\ hybrid_out.status = "returned"
    /\ context_out = NotCalled
    /\ \E source \in {"ranked", "vector"}, max_tokens \in MaxTokensChoices :
          \E context \in build_context_for_llm(
                            IF source = "ranked" THEN hybrid_out.ranked
                                                 ELSE hybrid_out.vector_results,
                            parsed.schema, max_tokens) :
             context_out' = [status |-> "returned", source |-> source,
                             max_tokens |-> max_tokens, context |-> context]
    /\ UNCHANGED <<input, parsed, loaded, rag_triples, graph_out, keyword_out,
                   hybrid_out, rerank_out, folder_out, join_out, neo4j>>

NextContext == HybridRetrieve \/ BuildContext

SpecContext == InitContext /\ [][NextContext]_vars


(***************************************************************************)
(* Properties of context building.                                         *)
(***************************************************************************)
\* The tables among the ranked candidates that exist in the schema, by rank.
RankedTables(ranked, schema) ==
    LET hits == SelectSeq(ranked, LAMBDA c : /\ Get(c, "type", NULL) = "table"
                                             /\ c["name"][1] \in KeySet(schema))
    IN  [i \in 1..Len(hits) |-> hits[i]["name"][1]]

\* C27: when the ranked candidates of hybrid_retrieve are passed to
\* build_context_for_llm, no table appears twice in the context, and with the
\* default budget the context holds the DDL of every ranked table of the
\* schema, the top-ranked table first; so it is more than the bare prefix
\* whenever a table is ranked.
C27_ContextHoldsRankedTables ==
    (context_out.status = "returned" /\ context_out.source = "ranked")
    => LET tables == RankedTables(hybrid_out.ranked, parsed.schema)
           parts  == context_out.context.parts
       IN  /\ \A i, j \in 1..Len(parts) : parts[i].table = parts[j].table => i = j
           /\ (context_out.max_tokens = DefaultMaxTokens /\ tables # <<>>)
              => /\ parts # <<>>
                 /\ parts[1].table = tables[1]
                 /\ \A t \in Range(tables) :
                       \E i \in 1..Len(parts) :
                          /\ parts[i].table = t
                          /\ parts[i].ddl = format_table_ddl(Lookup(parsed.schema, t))



(***************************************************************************)
(* core/sql_generator.py: join generation.  The SQL text is a sequence of  *)
(* lines: the SELECT of the base table, then a JOIN clause or a comment    *)
(* per step of each join path.                                             *)
(***************************************************************************)
\* The tables one foreign key away from node: those its columns refer to and
\* those with a column referring to it.
JoinNeighbors(node, schema) ==
    {c.foreign_key[1].ref_table :
        c \in {c \in Range(Lookup(schema, node).columns) : c.foreign_key # <<>>}}
    \cup {t.name : t \in {t \in Range(schema) :
                            \E c \in Range(t.columns) :
                               /\ c.foreign_key # <<>>
                               /\ c.foreign_key[1].ref_table = node}}

\* The breadth-first search of _find_join_path from a queue of paths: the
\* paths it may return, one per order in which each set of neighbours is
\* visited; <<>> when the queue runs empty.
RECURSIVE JoinSearch(_, _, _, _)
JoinSearch(queue, visited, end, schema) ==
    IF queue = <<>> THEN {<<>>}
    ELSE LET path == Head(queue)
             node == path[Len(path)]
             fresh == JoinNeighbors(node, schema) \ visited
         IN  IF node = end THEN {path}
             ELSE UNION {JoinSearch(Tail(queue) \o [i \in 1..Len(o) |-> Append(path, o[i])],
                                    visited \cup fresh, end, schema)
                         : o \in Orders(fresh)}

_find_join_path(start, end, schema) == JoinSearch(<<<<start>>>>, {start}, end, schema)

\* _find_join_path_graph(start, end): the table nodes of a shortest path in
\* the graph ingested from the schema, or <<>> when the query fails, the
\* database is unreachable, or there is no path.
_find_join_path_graph(start, end, schema) ==
    {<<>>} \cup _find_join_path(start, end, schema)

\* The line generate_join_sql emits for one step of a path.
JoinStep(left, right, schema) ==
    LET forward  == SelectSeq(Lookup(schema, left).columns,
                              LAMBDA c : /\ c.foreign_key # <<>>
                                         /\ c.foreign_key[1].ref_table = right)
        backward == SelectSeq(Lookup(schema, right).columns,
                              LAMBDA c : /\ c.foreign_key # <<>>
                                         /\ c.foreign_key[1].ref_table = left)
    IN  IF forward # <<>>
        THEN [kind |-> "join", table |-> right,
              on |-> <<<<left, forward[1].name>>,
                       <<right, forward[1].foreign_key[1].ref_column>>>>]
        ELSE IF backward # <<>>
        THEN [kind |-> "join", table |-> right,
              on |-> <<<<right, backward[1].name>>,
                       <<left, backward[1].foreign_key[1].ref_column>>>>]
        ELSE [kind |-> "no_join_clause", table |-> right, on |-> <<<<left>>, <<right>>>>]

\* The lines for one target: a comment when there is no path, otherwise one
\* line per step of the path.
JoinPathLines(base, tbl, path, schema) ==
    IF path = <<>>
    THEN <<[kind |-> "no_join_path", table |-> tbl, on |-> <<<<base>>, <<tbl>>>>]>>
    ELSE [i \in 1..(Len(path) - 1) |-> JoinStep(path[i], path[i + 1], schema)]

\* The loop of generate_join_sql over target_tables[1:]: the path of each
\* target comes from the graph when it returns one, from the schema otherwise.
RECURSIVE JoinTargets(_, _, _, _)
JoinTargets(base, targets, schema, sql) ==
    IF targets = <<>> THEN {sql}
    ELSE LET tbl == Head(targets)
             graph == _find_join_path_graph(base, tbl, schema) \ {<<>>}
             paths == graph \cup _find_join_path(base, tbl, schema)
         IN  UNION {JoinTargets(base, Tail(targets), schema,
                                sql \o JoinPathLines(base, tbl, path, schema))
                    : path \in paths}

\* generate_join_sql(target_tables, schema): the SQL texts it may return.
generate_join_sql(target_tables, schema) ==
    IF target_tables = <<>>
    THEN {<<[kind |-> "no_tables", table |-> NULL, on |-> <<>>]>>}
    ELSE JoinTargets(target_tables[1], Tail(target_tables), schema,
                     <<[kind |-> "select", table |-> target_tables[1], on |-> <<>>]>>)


(***************************************************************************)
(* Join generation as a state machine: one generate_join_sql over a parsed *)
(* Schema for a list of distinct tables of the schema.                     *)
(***************************************************************************)
MaxTargets == 3

TargetLists(schema) ==
    UNION {{o \in [1..n -> KeySet(schema)] : \A i, j \in 1..n : o[i] = o[j] => i = j}
           : n \in 0..MaxTargets}

InitJoin ==
    /\ input \in {DictInput(d) : d \in HybridDocuments}
    /\ parsed = SchemaParser_parse(input)
    /\ loaded = NotCalled
    /\ rag_triples = NotCalled
    /\ graph_out = NotCalled
    /\ keyword_out = NotCalled
    /\ hybrid_out = NotCalled
    /\ rerank_out = NotCalled
    /\ folder_out = NotCalled
    /\ context_out = NotCalled
    /\ join_out = NotCalled
    /\ neo4j = NoDriver

\* generate_join_sql(target_tables, schema)
GenerateJoinSql ==
    /\ parsed.status = "returned"
    /\ join_out = NotCalled
    /\ \E target_tables \in TargetLists(parsed.schema) :
          \E sql \in generate_join_sql(target_tables, parsed.schema) :
             join_out' = [status |-> "returned", target_tables |-> target_tables,
                          sql |-> sql]
    /\ UNCHANGED <<input, parsed, loaded, rag_triples, graph_out, keyword_out,
                   hybrid_out, rerank_out, folder_out, context_out, neo4j>>

NextJoin == GenerateJoinSql

SpecJoin == InitJoin /\ [][NextJoin]_vars


(***************************************************************************)
(* Properties of join generation.                                          *)
(***************************************************************************)
JoinedTables(sql) ==
    LET joins == SelectSeq(sql, LAMBDA l : l.kind = "join")
    IN  [i \in 1..Len(joins) |-> joins[i].table]

\* C28: in the SQL generate_join_sql produces for distinct target tables, no
\* table is introduced by two JOIN clauses and the base table is never
\* joined again.
C28_EachTableJoinedOnce ==
    join_out.status = "returned"
    => LET joined == JoinedTables(join_out.sql)
       IN  /\ \A i, j \in 1..Len(joined) : joined[i] = joined[j] => i = j
           /\ \A i \in 1..Len(joined) : joined[i] # join_out.target_tables[1]


(***************************************************************************)
(* core/neo4j_utils.py: the module-level driver.                           *)
(***************************************************************************)
\* get_driver(): with no handle, builds a driver, stores it in the handle and
\* then checks its connectivity; an exception of either step is re-raised.
get_driver(n) ==
    IF n.driver # <<>>
    THEN [n EXCEPT !.last = [call |-> "get_driver", outcome |-> "returned"]]
    ELSE IF ~n.uri_ok
    THEN [n EXCEPT !.last = [call |-> "get_driver", outcome |-> "raised"]]
    ELSE [n EXCEPT !.driver = <<[id |-> n.created + 1, verified |-> n.server_up]>>,
                   !.created = @ + 1,
                   !.last = [call |-> "get_driver",
                             outcome |-> IF n.server_up THEN "returned" ELSE "raised"]]

\* close_driver(): closes and forgets the handle if there is one.
close_driver(n) ==
    [n EXCEPT !.driver = <<>>,
              !.last = [call |-> "close_driver", outcome |-> "returned"]]

\* run_query(query, parameters): get_driver, then the query in a session;
\* the query raises when the server does not answer or rejects it.
run_query(n, query_ok) ==
    LET got == get_driver(n)
    IN  IF got.last.outcome = "raised"
        THEN [got EXCEPT !.last.call = "run_query"]
        ELSE IF got.server_up /\ query_ok
        THEN [got EXCEPT !.queries = @ + 1,
                         !.last = [call |-> "run_query", outcome |-> "returned"]]
        ELSE [got EXCEPT !.last = [call |-> "run_query", outcome |-> "raised"]]


(***************************************************************************)
(* The driver as a state machine: any sequence of get_driver, run_query    *)
(* and close_driver, while the server comes and goes.                      *)
(***************************************************************************)
MaxDrivers == 3

MaxQueries == 3

InitDriver ==
    /\ input = [form |-> "none"]
    /\ parsed = NotCalled
    /\ loaded = NotCalled
    /\ rag_triples = NotCalled
    /\ graph_out = NotCalled
    /\ keyword_out = NotCalled
    /\ hybrid_out = NotCalled
    /\ rerank_out = NotCalled
    /\ folder_out = NotCalled
    /\ context_out = NotCalled
    /\ join_out = NotCalled
    /\ \E uri_ok \in BOOLEAN, server_up \in BOOLEAN :
          neo4j = [NoDriver EXCEPT !.uri_ok = uri_ok, !.server_up = server_up]

CanConnect == neo4j.driver # <<>> \/ neo4j.created < MaxDrivers

GetDriver ==
    /\ CanConnect
    /\ neo4j' = get_driver(neo4j)
    /\ UNCHANGED <<input, parsed, loaded, rag_triples, graph_out, keyword_out,
                   hybrid_out, rerank_out, folder_out, context_out, join_out>>

RunQuery ==
    /\ CanConnect
    /\ neo4j.queries < MaxQueries
    /\ \E query_ok \in BOOLEAN : neo4j' = run_query(neo4j, query_ok)
    /\ UNCHANGED <<input, parsed, loaded, rag_triples, graph_out, keyword_out,
                   hybrid_out, rerank_out, folder_out, context_out, join_out>>

CloseDriver ==
    /\ neo4j' = close_driver(neo4j)
    /\ UNCHANGED <<input, parsed, loaded, rag_triples, graph_out, keyword_out,
                   hybrid_out, rerank_out, folder_out, context_out, join_out>>

\* The server goes down or comes back.
ServerChanges ==
    /\ neo4j' = [neo4j EXCEPT !.server_up = ~@]
    /\ UNCHANGED <<input, parsed, loaded, rag_triples, graph_out, keyword_out,
                   hybrid_out, rerank_out, folder_out, context_out, join_out>>

NextDriver == GetDriver \/ RunQuery \/ CloseDriver \/ ServerChanges

SpecDriver == InitDriver /\ [][NextDriver]_vars


(***************************************************************************)
(* Properties of the driver.                                               *)
(***************************************************************************)
\* C29: the driver handle only ever holds a driver whose connectivity check
\* succeeded, and a get_driver that raises leaves the handle unset.
C29_HandleHoldsVerifiedDriver ==
    /\ neo4j.driver # <<>> => neo4j.driver[1].verified
    /\ (neo4j.last.call = "get_driver" /\ neo4j.last.outcome = "raised")
       => neo4j.driver = <<>>

====
